---------------------------- MODULE Spec2Model ----------------------------
(***************************************************************************)
(* A model of asciidoc-preprocess: the structural parser (parser.py), the  *)
(* state stack (line_types.py), the conditional classifier (condmap.py)    *)
(* and the conditional transformer (preprocess_conditionals.py).           *)
(*                                                                         *)
(* A line's text is a sequence of characters.  Structural characters are   *)
(* one-character strings; a directive keyword ("ifdef"), "::", the role   *)
(* attribute name and a value name are each one opaque character.          *)
(***************************************************************************)
EXTENDS Integers, Sequences, FiniteSets, TLC

VARIABLES
    input,                \* the raw lines handed to Parsed() so far
    lines,                \* Parsed.lines: sequence of Line records
    running,              \* running_state_stack in Parsed.__init__
    next_line_id,         \* Parsed._next_line_id
    pc,                   \* position of the pipeline
    log,                  \* diagnostics emitted so far, in order
    idx,                  \* _make_map: idx
    scan,                 \* _make_map: <<position of the START, position of last_non_blank_line>>
                          \* while the inner loop runs, else <<>>
    conditionals,         \* ConditionalsMap.conditionals
    end_ids_unsupported,  \* _make_map: end_ids_unsupported
    cidx,                 \* process_conditionals: idx (0-based, as in the code)
    ridx,                 \* remove_conditionals: number of directive lines removed so far
    pool,                 \* Lines made by create_line and not (yet) in the document
    called,               \* the last call of a store method and what it returned or
                          \* raised, <<>> before the first call
    legacy                \* the call of the legacy apply_line_modifications: its
                          \* arguments, locals and position, <<>> when it is not called

vars == <<input, lines, running, next_line_id, pc, log, idx, scan,
          conditionals, end_ids_unsupported, cidx, ridx, pool, called, legacy>>

----------------------------------------------------------------------------
(* Bounds of the model. *)

MaxParseLines == 4
MaxDirectiveLines == 5
MaxLines == 6
MaxStoreLines == 2
MaxStoreOps == 2
MaxDiag == 2
MaxLegacyLines == 3

(* Program constants. *)

ADDED_LINE_START == 10000
ATTRIBUTE == "otherprops"

----------------------------------------------------------------------------
(* Sequence helpers. *)

Max(a, b) == IF a >= b THEN a ELSE b

Min(a, b) == IF a <= b THEN a ELSE b

Drop(s, n) == SubSeq(s, n + 1, Len(s))

Take(s, n) == SubSeq(s, 1, n)

StartsWith(s, p) == Len(s) >= Len(p) /\ Take(s, Len(p)) = p

Contains(s, c) == \E i \in 1..Len(s) : s[i] = c

\* position of the first c in s at or after position from, 0 when there is none
IndexFrom(s, c, from) ==
    IF \E i \in from..Len(s) : s[i] = c
    THEN CHOOSE i \in from..Len(s) : s[i] = c /\ \A j \in from..(i - 1) : s[j] # c
    ELSE 0

WS == {" ", "\t"}

\* a text kept as it was read
Untrimmed(s) == s

\* str.rstrip()
Rstrip(s) ==
    IF \E i \in 1..Len(s) : s[i] \notin WS
    THEN Take(s, CHOOSE i \in 1..Len(s) : s[i] \notin WS /\ \A j \in (i + 1)..Len(s) : s[j] \in WS)
    ELSE <<>>

\* str.lstrip()
Lstrip(s) ==
    IF \E i \in 1..Len(s) : s[i] \notin WS
    THEN Drop(s, (CHOOSE i \in 1..Len(s) : s[i] \notin WS /\ \A j \in 1..(i - 1) : s[j] \in WS) - 1)
    ELSE <<>>

\* str.strip()
Strip(s) == Lstrip(Rstrip(s))

\* length of the longest prefix of s made of characters of cs
RunLen(s, cs) ==
    IF \E i \in 1..Len(s) : s[i] \notin cs
    THEN (CHOOSE i \in 1..Len(s) : s[i] \notin cs /\ \A j \in 1..(i - 1) : s[j] \in cs) - 1
    ELSE Len(s)

----------------------------------------------------------------------------
(* regexes.py: the line-shape recognizers. *)

NoMatch == [matched |-> FALSE]

Directives == {"ifdef", "ifndef", "endif", "ifeval"}

\* regexes.CONDITIONAL.match: directive, [^\[\]]*, "[", [^\]]*, "]", .*
CONDITIONAL(content) ==
    IF Len(content) >= 2 /\ content[1] \in Directives /\ content[2] = "::"
    THEN LET open  == IndexFrom(content, "[", 3)
             stray == IndexFrom(content, "]", 3)
             close == IF open = 0 THEN 0 ELSE IndexFrom(content, "]", open + 1)
         IN  IF open # 0 /\ close # 0 /\ stray = close
             THEN [matched  |-> TRUE,
                   operator |-> content[1],
                   before   |-> SubSeq(content, 3, open - 1),
                   inside   |-> SubSeq(content, open + 1, close - 1)]
             ELSE NoMatch
    ELSE NoMatch

DelimChars == {"=", "*", "_", "-", ".", "/", "+"}

TableChars == {"|", "!", ",", ":"}

\* regexes.is_delimiter: the delimiter or <<>> (None)
is_delimiter(content) ==
    LET stripped == Rstrip(content)
    IN  IF stripped = <<"-", "-">> THEN stripped
        ELSE IF /\ Len(stripped) >= 4
                /\ stripped[1] \in DelimChars
                /\ \A i \in 1..Len(stripped) : stripped[i] = stripped[1]
             THEN stripped
        ELSE IF /\ Len(stripped) >= 4
                /\ stripped[1] \in TableChars
                /\ \A i \in 2..Len(stripped) : stripped[i] = "="
             THEN stripped
        ELSE <<>>

\* regexes.is_delimiter_verbatim
is_delimiter_verbatim(delimiter) ==
    IF delimiter = <<"-", "-">> THEN FALSE
    ELSE IF delimiter[1] \in {"-", "+", "/", "."} THEN TRUE
    ELSE IF delimiter[1] \in {"!", ":", ",", "|"} THEN TRUE
    ELSE FALSE

\* regexes.SECTION_HEADER.match: ={1,6}, whitespace, a title
SECTION_HEADER(text) ==
    LET level == RunLen(text, {"="})
        rest  == Drop(text, level)
        gap   == RunLen(rest, WS)
    IN  level >= 1 /\ level <= 6 /\ gap >= 1 /\ Len(rest) > gap

\* regexes.LIST_ITEM.match: (\*+|\.+), whitespace, anything; the marker or <<>>
LIST_ITEM(text) ==
    LET stars == RunLen(text, {"*"})
        dots  == RunLen(text, {"."})
        n     == IF stars > 0 THEN stars ELSE dots
    IN  IF n > 0 /\ Len(text) > n /\ text[n + 1] \in WS THEN Take(text, n) ELSE <<>>

NameChars == {"a", "b", "n", "z", "t", "u", "x", "c", "i", "j", "T", "H", "_", "-"}

\* regexes.ATTRIBUTE_DEFINITION.match: ":", optional "!", a name, ":", anything
ATTRIBUTE_DEFINITION(text) ==
    /\ Len(text) >= 3
    /\ text[1] = ":"
    /\ LET body == IF text[2] = "!" THEN Drop(text, 2) ELSE Drop(text, 1)
           name == RunLen(body, NameChars)
       IN  name >= 1 /\ Len(body) > name /\ body[name + 1] = ":"

----------------------------------------------------------------------------
(* line_types.py: states and the state stack. *)

StateTypes == {"DELIMITED_BLOCK", "ROOT", "PARAGRAPH", "LIST_ITEM", "CONDITIONAL",
               "BLOCK_PREFIX", "SECTION_HEADER", "LINE_COMMENT", "ATTRIBUTE_DEFINITION"}

StateSubtypes == {"START", "END", "SINGLE_LINE", "VERBATIM", "NORMAL", "FIRST_LINE",
                  "JOINER", "JOINED_FIRST_LINE", "JOINED_NORMAL", "TERMINATED",
                  "JOINED_DELIMITED_BLOCK", "BLOCK_TITLE", "BLOCK_ATTRIBUTES"}

VALID_SUBTYPES ==
    [t \in StateTypes |->
        CASE t = "DELIMITED_BLOCK" -> {"START", "END", "VERBATIM", "NORMAL"}
          [] t = "PARAGRAPH" -> {"NORMAL", "FIRST_LINE"}
          [] t = "LIST_ITEM" -> {"NORMAL", "FIRST_LINE", "JOINER", "JOINED_FIRST_LINE",
                                 "JOINED_NORMAL", "TERMINATED", "JOINED_DELIMITED_BLOCK"}
          [] t = "CONDITIONAL" -> {"START", "END", "SINGLE_LINE"}
          [] t = "ROOT" -> {"NORMAL"}
          [] t = "BLOCK_PREFIX" -> {"BLOCK_ATTRIBUTES", "BLOCK_TITLE"}
          [] t = "SECTION_HEADER" -> {"NORMAL"}
          [] t = "LINE_COMMENT" -> {"NORMAL"}
          [] t = "ATTRIBUTE_DEFINITION" -> {"NORMAL"}]

ValueError == [error |-> "ValueError"]

NoParams == <<>>

\* State.__init__: the state, or ValueError for an illegal (type, subtype) pair
State(type, subtype, parameters) ==
    IF subtype \notin VALID_SUBTYPES[type]
    THEN ValueError
    ELSE [type |-> type, subtype |-> subtype, parameters |-> parameters]

\* an assignment in place that stores a subtype of another type
WithForeignSubtype(state, subtype) == [state EXCEPT !.subtype = "JOINER"]

\* state.subtype = subtype: assignment in place, not validated
WithSubtype(state, subtype) == [state EXCEPT !.subtype = subtype]

\* State.__setitem__ / state.parameters[key] = value
SetParam(state, key, value) ==
    [state EXCEPT !.parameters = (key :> value) @@ state.parameters]

\* State.get: <<value>>, or <<>> for None
Get(state, key) ==
    IF key \in DOMAIN state.parameters THEN <<state.parameters[key]>> ELSE <<>>

\* StateStack.top
Top(stack) == stack[Len(stack)]

\* StateStack.pop: the stack that is left
Pop(stack) == Take(stack, Len(stack) - 1)

\* StateStack.push
Push(stack, state) == Append(stack, state)

\* index of the topmost state of the type, 0 when there is none (StateStack.top_by_type)
top_by_type(stack, type) ==
    IF \E i \in 1..Len(stack) : stack[i].type = type
    THEN CHOOSE i \in 1..Len(stack) :
            stack[i].type = type /\ \A j \in (i + 1)..Len(stack) : stack[j].type # type
    ELSE 0

\* the delimiter of the outermost delimited block, <<>> when there is none
bottom_delimiter(stack) ==
    LET blocks == {i \in 1..Len(stack) : /\ stack[i].type = "DELIMITED_BLOCK"
                                         /\ "delimiter" \in DOMAIN stack[i].parameters}
    IN  IF blocks = {} THEN <<>>
        ELSE stack[CHOOSE i \in blocks : \A j \in blocks : i <= j].parameters["delimiter"]

\* StateStack.top_delimiter: the delimiter of the topmost delimited block, <<>> for None
top_delimiter(stack) ==
    LET i == top_by_type(stack, "DELIMITED_BLOCK")
    IN  IF i = 0 THEN <<>>
        ELSE IF "delimiter" \in DOMAIN stack[i].parameters
             THEN stack[i].parameters["delimiter"] ELSE <<>>

\* StateStack.pop_until_delimited_block(inclusive = False): the stack that is left
pop_until_delimited_block(stack) == Take(stack, top_by_type(stack, "DELIMITED_BLOCK"))

\* while stack.top().type == LIST_ITEM: stack.pop()
PopListItems(stack) ==
    LET keep == {i \in 1..Len(stack) : stack[i].type # "LIST_ITEM"}
    IN  IF keep = {} THEN <<>>
        ELSE Take(stack, CHOOSE i \in keep : \A j \in keep : j <= i)

\* a truncation that keeps the ROOT state alone
RootOnly(stack) == Take(stack, 1)

\* StateStack.until_delim_or_root
until_delim_or_root(stack) ==
    LET keep == {i \in 1..Len(stack) : stack[i].type \in {"ROOT", "DELIMITED_BLOCK"}}
    IN  IF keep = {} THEN <<>>
        ELSE Take(stack, CHOOSE i \in keep : \A j \in keep : j <= i)

----------------------------------------------------------------------------
(* parser.py: the document store. *)

\* Line.__init__; state_stack starts empty
Line(id, content) == [id |-> id, content |-> content, state_stack |-> <<>>]

\* line.state_stack.copy(...) followed by its pushes: the line with that stack
WithStack(line, stack) == [line EXCEPT !.state_stack = stack]

\* index in doc of the first line with the id, 0 when there is none
IndexOfId(doc, line_id) ==
    IF \E i \in 1..Len(doc) : doc[i].id = line_id
    THEN CHOOSE i \in 1..Len(doc) :
            doc[i].id = line_id /\ \A j \in 1..(i - 1) : doc[j].id # line_id
    ELSE 0

\* list.insert(index, x) with a 0-based index
InsertAt(doc, index, x) == Take(doc, index) \o <<x>> \o Drop(doc, index)

\* del list[index] with a 1-based index
RemoveAt(doc, i) == Take(doc, i - 1) \o Drop(doc, i)

----------------------------------------------------------------------------
(* parser.py: Parsed._parse_line.  Every branch gives the stack of the new  *)
(* line, the stack carried to the next line, the earlier lines as the       *)
(* branch leaves them, the diagnostics it logs and the error it raises.     *)

Diag(kind, line_id) == [kind |-> kind, line |-> line_id]

Parse(line_stack, result, doc, diags) ==
    [line_stack |-> line_stack, result |-> result, doc |-> doc,
     diags |-> diags, fatal |-> ""]

Raise(error, starting, doc) ==
    [line_stack |-> <<>>, result |-> starting, doc |-> doc,
     diags |-> <<>>, fatal |-> error]

IsOpenStart(line) ==
    /\ Top(line.state_stack).type = "CONDITIONAL"
    /\ Top(line.state_stack).subtype = "START"
    /\ Get(Top(line.state_stack), "end_line") = <<-1>>

\* a search from the top of the document: the earliest open START, 0 when none
EarliestStart(doc) ==
    IF \E i \in 1..Len(doc) : IsOpenStart(doc[i])
    THEN CHOOSE i \in 1..Len(doc) :
            IsOpenStart(doc[i]) /\ \A j \in 1..(i - 1) : ~IsOpenStart(doc[j])
    ELSE 0

\* for i in range(len(self.lines) - 2, -1, -1): the nearest earlier open START, 0 when none
MatchingStart(doc) ==
    IF \E i \in 1..Len(doc) : IsOpenStart(doc[i])
    THEN CHOOSE i \in 1..Len(doc) :
            IsOpenStart(doc[i]) /\ \A j \in (i + 1)..Len(doc) : ~IsOpenStart(doc[j])
    ELSE 0

\* prev_line.state_stack.top()["end_line"] = line.id
SealStart(doc, i, line_id) ==
    [doc EXCEPT ![i].state_stack[Len(doc[i].state_stack)] =
        SetParam(Top(doc[i].state_stack), "end_line", line_id)]

\* a conditional directive
ParseConditional(m, starting, id, doc) ==
    IF m.operator = "endif"
    THEN LET i == MatchingStart(doc)
         IN  IF i # 0
             THEN Parse(Push(starting, State("CONDITIONAL", "END", ("start_line" :> doc[i].id))),
                        starting, SealStart(doc, i, id), <<>>)
             ELSE Parse(Push(starting, State("CONDITIONAL", "END", NoParams)),
                        starting, doc, <<Diag("endif without matching ifdef", id)>>)
    ELSE IF /\ m.operator \in {"ifdef", "ifndef"}
            /\ Strip(m.before) # <<>>
            /\ Strip(m.inside) # <<>>
    THEN Parse(Push(starting, State("CONDITIONAL", "SINGLE_LINE", ("operator" :> m.operator))),
               starting, doc, <<>>)
    ELSE LET expression == IF m.operator \in {"ifdef", "ifndef"} THEN m.before ELSE m.inside
         IN  Parse(Push(starting, State("CONDITIONAL", "START",
                                        [expression |-> expression,
                                         operator   |-> m.operator,
                                         end_line   |-> -1])),
                   starting, doc, <<>>)

\* a close that leaves the START line as it was
SealNothing(doc, i, line_id) == doc

\* block_start_line.state_stack.top().parameters["block_end_line"] = line.id
SealBlock(doc, i, line_id) ==
    [doc EXCEPT ![i].state_stack[Len(doc[i].state_stack)] =
        SetParam(Top(doc[i].state_stack), "block_end_line", line_id)]

\* the line is the delimiter of the topmost open block: close it
ParseBlockEnd(starting, id, doc) ==
    LET upto        == pop_until_delimited_block(starting)
        delim_state == Top(upto)
        below       == Pop(upto)
        start_idx   == IndexOfId(doc, delim_state.parameters["block_start_line"])
    IN  IF start_idx = 0
        THEN Raise("KeyError", starting, doc)
        ELSE Parse(Push(below, WithSubtype(delim_state, "END")), below,
                   SealBlock(doc, start_idx, id), <<>>)

\* a line comment: "//" and (at most four characters or not "//" again)
IsLineComment(clean_text) ==
    /\ StartsWith(clean_text, <<"/", "/">>)
    /\ (Len(clean_text) <= 4 \/ SubSeq(clean_text, 3, Min(4, Len(clean_text))) # <<"/", "/">>)

\* a line-local state that is carried to the next line as well
ParseCarried(type, subtype, starting, doc) ==
    Parse(Push(starting, State(type, subtype, NoParams)),
          Push(starting, State(type, subtype, NoParams)), doc, <<>>)

\* push a line-local state on this line only; the carried stack is unchanged
ParsePassThrough(type, subtype, starting, doc) ==
    Parse(Push(starting, State(type, subtype, NoParams)), starting, doc, <<>>)

\* a delimiter that opens a block
ParseBlockStart(delimiter, starting, id, doc) ==
    LET block_param == [delimiter |-> delimiter, block_start_line |-> id]
        no_para == IF Top(starting).type = "PARAGRAPH" THEN Pop(starting) ELSE starting
        result  == IF Top(no_para).type = "LIST_ITEM"
                   THEN IF Top(no_para).subtype = "JOINED_FIRST_LINE"
                        THEN Push(Pop(no_para), WithSubtype(Top(no_para), "JOINED_DELIMITED_BLOCK"))
                        ELSE PopListItems(no_para)
                   ELSE no_para
        subtype == IF is_delimiter_verbatim(delimiter) THEN "VERBATIM" ELSE "NORMAL"
    IN  IF result = <<>>
        THEN Raise("IndexError", starting, doc)
        ELSE Parse(Push(result, State("DELIMITED_BLOCK", "START", block_param)),
                   Push(result, State("DELIMITED_BLOCK", subtype, block_param)),
                   doc, <<>>)

\* a blank line that changes nothing in any context
BlankPassThrough(starting, doc) == Parse(starting, starting, doc, <<>>)

\* a blank line
ParseBlank(starting, doc) ==
    IF Top(starting).type = "PARAGRAPH"
    THEN Parse(Pop(starting), Pop(starting), doc, <<>>)
    ELSE IF Top(starting).type = "LIST_ITEM"
    THEN LET list_state == Top(starting)
             under      == Pop(starting)
         IN  IF /\ list_state.subtype = "JOINED_FIRST_LINE"
                /\ Top(under).type = "LIST_ITEM"
             THEN \* ancestor list continuation
                  Parse(Push(Pop(under), WithSubtype(Top(under), "JOINER")),
                        Push(Pop(under), WithSubtype(Top(under), "JOINED_FIRST_LINE")),
                        doc, <<>>)
             ELSE Parse(Push(under, WithSubtype(list_state, "TERMINATED")),
                        Push(under, WithSubtype(list_state, "TERMINATED")),
                        doc, <<>>)
    ELSE Parse(starting, starting, doc, <<>>)

\* a lone "+" directly inside a list item that is not terminated
IsJoiner(clean_text, starting) ==
    /\ clean_text = <<"+">>
    /\ Top(starting).type = "LIST_ITEM"
    /\ Top(starting).subtype # "TERMINATED"

ParseJoiner(starting, id, doc) ==
    LET list_item_state == Top(starting)
        under == Pop(starting)
    IN  Parse(Push(under, WithSubtype(list_item_state, "JOINER")),
              Push(under, WithSubtype(list_item_state, "JOINED_FIRST_LINE")),
              doc,
              IF list_item_state.subtype = "JOINED_FIRST_LINE"
              THEN <<Diag("+ immediately after another +", id)>> ELSE <<>>)

\* a [block attributes] line
IsBlockAttributes(clean_text) ==
    Len(clean_text) >= 1 /\ clean_text[1] = "[" /\ clean_text[Len(clean_text)] = "]"

ParseBlockAttributes(starting, doc) ==
    LET new_state_stack ==
            IF Top(starting).type = "PARAGRAPH" THEN Pop(starting)
            ELSE IF Top(starting).type = "LIST_ITEM" /\ Top(starting).subtype = "JOINED_NORMAL"
                 THEN Push(Pop(starting), WithSubtype(Top(starting), "JOINED_FIRST_LINE"))
                 ELSE starting
    IN  Parse(Push(new_state_stack, State("BLOCK_PREFIX", "BLOCK_ATTRIBUTES", NoParams)),
              new_state_stack, doc, <<>>)

\* a search that finds no enclosing list item
NoExistingList(starting, list_marker) == 0

\* index of the enclosing list item with this marker, searched from the top down to
\* the nearest ROOT or DELIMITED_BLOCK; 0 when there is none
ExistingList(starting, list_marker) ==
    LET floor == Len(until_delim_or_root(starting))
        same  == {i \in (floor + 1)..Len(starting) :
                    /\ starting[i].type = "LIST_ITEM"
                    /\ Get(starting[i], "marker") = <<list_marker>>}
    IN  IF Top(starting).type = "LIST_ITEM" /\ same # {}
        THEN CHOOSE i \in same : \A j \in same : j <= i
        ELSE 0

\* a list-marker line met outside a paragraph
ParseListItem(list_marker, starting, id, doc) ==
    LET k == ExistingList(starting, list_marker)
    IN  IF k # 0
        THEN LET base == Take(starting, k - 1)
                 existing_list_state ==
                    SetParam(WithSubtype(starting[k], "FIRST_LINE"), "item_start_line", id)
             IN  Parse(Push(base, existing_list_state),
                       Push(base, WithSubtype(existing_list_state, "NORMAL")),
                       doc, <<>>)
        ELSE LET new_list_state ==
                    State("LIST_ITEM", "FIRST_LINE",
                          [list_start_line |-> id, item_start_line |-> id, marker |-> list_marker])
             IN  Parse(Push(starting, new_list_state),
                       Push(starting, WithSubtype(new_list_state, "NORMAL")),
                       doc, <<>>)

\* the shape of a block title: ".", then neither whitespace nor "."
LooksLikeBlockTitle(clean_text) ==
    /\ Len(clean_text) > 1
    /\ clean_text[1] = "."
    /\ clean_text[2] \notin WS
    /\ clean_text[2] # "."

\* the contexts in which that shape is a block title
IsBlockTitle(clean_text, starting) ==
    /\ LooksLikeBlockTitle(clean_text)
    /\ \/ Top(starting).type \in {"ROOT", "DELIMITED_BLOCK"}
       \/ /\ Top(starting).type = "LIST_ITEM"
          /\ Top(starting).subtype \in {"JOINED_FIRST_LINE", "JOINED_NORMAL", "TERMINATED"}

ParseBlockTitle(starting, doc) ==
    LET new_state_stack ==
            IF Top(starting).type \in {"ROOT", "DELIMITED_BLOCK"} THEN starting
            ELSE IF Top(starting).subtype = "TERMINATED" THEN PopListItems(starting)
            ELSE Push(Pop(starting), WithSubtype(Top(starting), "JOINED_FIRST_LINE"))
    IN  Parse(Push(new_state_stack, State("BLOCK_PREFIX", "BLOCK_TITLE", NoParams)),
              new_state_stack, doc, <<>>)

\* the contexts in which a section-header shape is honoured
IsSectionHeader(clean_text, starting) ==
    /\ SECTION_HEADER(clean_text)
    /\ \/ /\ Top(starting).type = "LIST_ITEM"
          /\ Top(starting).subtype \in {"TERMINATED", "JOINED_DELIMITED_BLOCK"}
       \/ Top(starting).type \in {"ROOT", "DELIMITED_BLOCK"}

ParseSectionHeader(starting, id, doc) ==
    LET new_state_stack ==
            IF Top(starting).type = "LIST_ITEM" THEN PopListItems(starting) ELSE starting
    IN  Parse(Push(new_state_stack, State("SECTION_HEADER", "NORMAL", NoParams)),
              new_state_stack, doc,
              IF Top(new_state_stack).type = "DELIMITED_BLOCK"
              THEN <<Diag("section title inside delimited block", id)>> ELSE <<>>)

\* an ordinary line: continues the paragraph or the list item, or opens a paragraph
ParseOrdinary(starting, id, doc) ==
    LET top == Top(starting)
        paragraph_state == State("PARAGRAPH", "FIRST_LINE", ("first_line" :> id))
        result_state_stack ==
            IF top.type = "LIST_ITEM" THEN PopListItems(starting) ELSE starting
    IN  IF top.type = "PARAGRAPH"
        THEN Parse(starting, starting, doc, <<>>)
        ELSE IF top.type = "LIST_ITEM" /\ top.subtype = "JOINED_FIRST_LINE"
        THEN \* line.state_stack.push(line_item_state): the name is not bound here
             Raise("UnboundLocalError", starting, doc)
        ELSE IF top.type = "LIST_ITEM" /\ top.subtype \notin {"JOINED_DELIMITED_BLOCK", "TERMINATED"}
        THEN Parse(starting, starting, doc, <<>>)
        ELSE Parse(Push(result_state_stack, paragraph_state),
                   Push(result_state_stack, WithSubtype(paragraph_state, "NORMAL")),
                   doc, <<>>)

\* the diagnostics of a branch, after those logged before it was reached
After(diags, parse) == [parse EXCEPT !.diags = diags \o parse.diags]

\* the checks that follow the continuation-marker check
ParseRest(clean_text, starting, id, doc) ==
    IF IsBlockAttributes(clean_text)
    THEN ParseBlockAttributes(starting, doc)
    ELSE IF LIST_ITEM(clean_text) # <<>> /\ Top(starting).type # "PARAGRAPH"
    THEN ParseListItem(LIST_ITEM(clean_text), starting, id, doc)
    ELSE IF IsBlockTitle(clean_text, starting)
    THEN ParseBlockTitle(starting, doc)
    ELSE IF IsSectionHeader(clean_text, starting)
    THEN ParseSectionHeader(starting, id, doc)
    ELSE ParseOrdinary(starting, id, doc)

\* the carried top states that must never reach _parse_line
InvalidTop(state) ==
    \/ state.type \in {"CONDITIONAL", "BLOCK_PREFIX", "SECTION_HEADER"}
    \/ state.subtype = "JOINER"

\* Parsed._parse_line(content, starting_state_stack), the new line having the given id
parse_line(content, starting, id, doc) ==
    LET clean_text == Rstrip(content)
        m == CONDITIONAL(content)
    IN  IF starting = <<>> THEN Raise("IndexError", starting, doc)
        ELSE IF InvalidTop(Top(starting)) THEN Raise("ValueError", starting, doc)
        ELSE IF m.matched THEN ParseConditional(m, starting, id, doc)
        ELSE IF top_delimiter(starting) # <<>> /\ clean_text = top_delimiter(starting)
        THEN ParseBlockEnd(starting, id, doc)
        ELSE IF Top(starting).subtype = "VERBATIM"
        THEN Parse(starting, starting, doc, <<>>)
        ELSE IF IsLineComment(clean_text)
        THEN ParsePassThrough("LINE_COMMENT", "NORMAL", starting, doc)
        ELSE IF ATTRIBUTE_DEFINITION(clean_text)
        THEN ParsePassThrough("ATTRIBUTE_DEFINITION", "NORMAL", starting, doc)
        ELSE IF is_delimiter(clean_text) # <<>>
        THEN ParseBlockStart(is_delimiter(clean_text), starting, id, doc)
        ELSE IF clean_text = <<>>
        THEN ParseBlank(starting, doc)
        ELSE IF IsJoiner(clean_text, starting)
        THEN ParseJoiner(starting, id, doc)
        ELSE IF clean_text = <<"+">>
        THEN After(<<Diag("single + is not a valid joiner", id)>>,
                   ParseRest(clean_text, starting, id, doc))
        ELSE ParseRest(clean_text, starting, id, doc)

----------------------------------------------------------------------------
(* condmap.py: ConditionalsMap._make_map.  Lines are addressed by their     *)
(* 1-based position k in the document; the code's idx is k - 1.             *)

\* the recognized attribute-value tokens handed to ConditionalsMap
Values == {<<"a">>, <<"b">>}

Conditional(type, start_id, end_id, values) ==
    [type |-> type, start_id |-> start_id, end_id |-> end_id, values |-> values]

\* line.content.strip() == ""
IsBlank(line) == Strip(line.content) = <<>>

\* lines skipped when looking for the line that follows a span
Skippable(line) ==
    \/ IsBlank(line)
    \/ Top(line.state_stack).type \in {"CONDITIONAL", "LINE_COMMENT", "ATTRIBUTE_DEFINITION"}

\* position of the first line after position k that is not skippable, 0 for None
NextContentLine(doc, k) ==
    IF \E i \in (k + 1)..Len(doc) : ~Skippable(doc[i])
    THEN CHOOSE i \in (k + 1)..Len(doc) :
            ~Skippable(doc[i]) /\ \A j \in (k + 1)..(i - 1) : Skippable(doc[j])
    ELSE 0

\* expression.split(","), as the set of its pieces
RECURSIVE SplitComma(_)
SplitComma(expression) ==
    LET i == IndexFrom(expression, ",", 1)
    IN  IF i = 0 THEN {expression}
        ELSE {Take(expression, i - 1)} \cup SplitComma(Drop(expression, i))

\* set([attr.strip() for attr in expression.split(",") if attr.strip()])
ConditionValues(expression) ==
    {Strip(attr) : attr \in SplitComma(expression)} \ {<<>>}

\* a value set that is not inverted for ifndef
NamedValues(top_state, values) == ConditionValues(top_state.parameters["expression"])

\* the value set a span is recorded with
ResolvedValues(top_state, values) ==
    LET condition_values == ConditionValues(top_state.parameters["expression"])
    IN  IF top_state.parameters["operator"] = "ifndef"
        THEN values \ condition_values ELSE condition_values

\* ConditionalsMap._warn_about_nested(first_line, last_line), by position
warn_about_nested(doc, first, last) ==
    LET Warnings(i) ==
            (IF /\ Top(doc[i].state_stack).type = "CONDITIONAL"
                /\ Top(doc[i].state_stack).subtype # "END"
             THEN <<Diag("nested conditional", doc[i].id)>> ELSE <<>>)
            \o
            (IF Top(doc[i].state_stack).type = "SECTION_HEADER"
             THEN <<Diag("section header conditioned", doc[i].id)>> ELSE <<>>)
        Upto[i \in (first - 1)..last] ==
            IF i < first THEN <<>> ELSE Upto[i - 1] \o Warnings(i)
    IN  Upto[last]

\* what one turn of the loop of _make_map leaves behind
Outcome(next_idx, conds, unsupported, diags) ==
    [idx |-> next_idx, conditionals |-> conds, unsupported |-> unsupported,
     diags |-> diags, scan |-> 0, fatal |-> ""]

\* the turn reaches the search for the last non-blank line, starting at position last
ToScan(k, conds, unsupported, last) ==
    [idx |-> k - 1, conditionals |-> conds, unsupported |-> unsupported,
     diags |-> <<>>, scan |-> last, fatal |-> ""]

\* the span is not supported: its end is remembered and the loop moves one line on
Reject(k, conds, unsupported, end_line_id, diag) ==
    Outcome(k, conds, unsupported \cup {end_line_id}, <<diag>>)

\* the span is recorded and the loop moves past its end
Record(doc, k, conds, unsupported, type) ==
    LET top_state == Top(doc[k].state_stack)
        end_line_id == top_state.parameters["end_line"]
        e == IndexOfId(doc, end_line_id)
    IN  Outcome(e,
                Append(conds, Conditional(type, doc[k].id, end_line_id,
                                          ResolvedValues(top_state, Values))),
                unsupported,
                warn_about_nested(doc, k + 1, e - 1))

\* the state under a delimited block that may sit on top of the list item
ItemStateOf(stack) ==
    IF Top(stack).type = "DELIMITED_BLOCK" THEN Top(Pop(stack)) ELSE Top(stack)

\* the line at position n belongs to the list item that the first line of the span is in
SameItem(doc, n, first_line_top_state) ==
    /\ n # 0
    /\ ItemStateOf(doc[n].state_stack).type = "LIST_ITEM"
    /\ Get(ItemStateOf(doc[n].state_stack), "item_start_line")
          = Get(first_line_top_state, "item_start_line")

\* the records that the backward pass over self.conditionals retags
\* (potential_last_line_id is never moved back, so the pass compares every
\* record's end with the same line)
Regrouped(conds, potential_last_line_id) ==
    LET Stops(j) == \/ conds[j].end_id # potential_last_line_id
                    \/ conds[j].type # "SINGLE_LIST_ITEM"
        reached == {j \in 1..Len(conds) : \A i \in j..Len(conds) : ~Stops(i)}
    IN  [j \in 1..Len(conds) |->
            IF j \in reached
            THEN [conds[j] EXCEPT !.type = "GROUP_START_LIST_ITEM"]
            ELSE conds[j]]

\* condmap.py lines 201-365: the classification of the span that starts at position k,
\* given the position of its last non-blank line
Classify(doc, k, conds, unsupported, last_non_blank) ==
    LET start_line  == doc[k]
        top_state   == Top(start_line.state_stack)
        end_line_id == top_state.parameters["end_line"]
        e           == IndexOfId(doc, end_line_id)
        first_line_top_state == Top(doc[k + 1].state_stack)
        last_line_top_state  == Top(doc[e - 1].state_stack)
        next_line   == NextContentLine(doc, e)
        mid_start   ==
            \/ /\ first_line_top_state.type = "PARAGRAPH"
               /\ first_line_top_state.subtype = "NORMAL"
            \/ /\ first_line_top_state.type = "LIST_ITEM"
               /\ first_line_top_state.subtype \notin
                    {"FIRST_LINE", "TERMINATED", "JOINED_DELIMITED_BLOCK"}
        item_start  ==
            /\ first_line_top_state.type = "LIST_ITEM"
            /\ first_line_top_state.subtype = "FIRST_LINE"
            /\ last_line_top_state = first_line_top_state
        breaking_boundary ==
            IF last_line_top_state.type = "PARAGRAPH" /\ next_line # 0
            THEN /\ Top(doc[next_line].state_stack).type = "PARAGRAPH"
                 /\ Top(doc[next_line].state_stack).subtype # "FIRST_LINE"
            ELSE IF last_line_top_state.type = "LIST_ITEM" /\ next_line # 0
            THEN SameItem(doc, next_line, first_line_top_state)
            ELSE FALSE
    IN  IF mid_start
        THEN IF doc[k + 1].state_stack = doc[last_non_blank].state_stack
             THEN Record(doc, k, conds, unsupported, "PARTIAL")
             ELSE Reject(k, conds, unsupported, end_line_id,
                         Diag("starts mid-item and includes several items", start_line.id))
        ELSE IF item_start
        THEN IF ~SameItem(doc, next_line, first_line_top_state)
             THEN Record(doc, k, conds, unsupported, "SINGLE_LIST_ITEM")
             ELSE IF k = 1
             THEN \* self.parsed.previous_line(start_line).id on None
                  [Outcome(k - 1, conds, unsupported, <<>>) EXCEPT !.fatal = "AttributeError"]
             ELSE LET regrouped == Regrouped(conds, doc[k - 1].id)
                  IN  IF regrouped # conds
                      THEN Record(doc, k, regrouped, unsupported, "GROUP_START_LIST_ITEM")
                      ELSE Record(doc, k, conds, unsupported, "PART_START_LIST_ITEM")
        ELSE IF ~breaking_boundary
        THEN Record(doc, k, conds, unsupported, "BLOCKS")
        ELSE IF /\ first_line_top_state.type = "PARAGRAPH"
                /\ last_line_top_state.type = "PARAGRAPH"
                /\ Get(last_line_top_state, "start_line") = Get(first_line_top_state, "start_line")
        THEN Record(doc, k, conds, unsupported, "PARTIAL")
        ELSE Reject(k, conds, unsupported, end_line_id,
                    Diag("ends mid-item and includes several items", start_line.id))

\* condmap.py lines 104-192: the checks on a CONDITIONAL/START line at position k
ExamineStart(doc, k, conds, unsupported) ==
    LET start_line  == doc[k]
        top_state   == Top(start_line.state_stack)
        end_line_id == top_state.parameters["end_line"]
        e           == IndexOfId(doc, end_line_id)
        operator    == top_state.parameters["operator"]
        expression  == top_state.parameters["expression"]
        prev_top    == Top(doc[k - 1].state_stack)
    IN  IF end_line_id = -1
        THEN Outcome(k, conds, unsupported, <<Diag("no endif line found", start_line.id)>>)
        ELSE IF e = 0
        THEN [Outcome(k - 1, conds, unsupported, <<>>) EXCEPT !.fatal = "KeyError"]
        ELSE IF operator = "ifeval"
        THEN Reject(k, conds, unsupported, end_line_id,
                    Diag("ifeval is unsupported", start_line.id))
        ELSE IF expression = <<>>
        THEN Reject(k, conds, unsupported, end_line_id,
                    Diag("could not get the expression", start_line.id))
        ELSE IF Contains(expression, "+")
        THEN Reject(k, conds, unsupported, end_line_id,
                    Diag("expression using + unsupported", start_line.id))
        ELSE IF ~(ConditionValues(expression) \subseteq Values)
        THEN Reject(k, conds, unsupported, end_line_id,
                    Diag("expression uses undefined value", start_line.id))
        ELSE IF until_delim_or_root(start_line.state_stack)
                    # until_delim_or_root(doc[e].state_stack)
        THEN Reject(k, conds, unsupported, end_line_id,
                    Diag("different delimited block positions", start_line.id))
        ELSE IF k > 1 /\ prev_top.type = "BLOCK_PREFIX" /\ prev_top.subtype = "BLOCK_ATTRIBUTES"
        THEN Reject(k, conds, unsupported, end_line_id,
                    Diag("block attributes immediately before conditional", start_line.id))
        ELSE IF /\ k > 1 /\ prev_top.type = "BLOCK_PREFIX" /\ prev_top.subtype = "BLOCK_TITLE"
                /\ Top(doc[k + 1].state_stack).type = "DELIMITED_BLOCK"
        THEN Reject(k, conds, unsupported, end_line_id,
                    Diag("conditional cuts block title off delimited block", start_line.id))
        ELSE IF k + 1 = e
        THEN Outcome(e, conds, unsupported, <<Diag("empty conditional", start_line.id)>>)
        ELSE ToScan(k, conds, unsupported, e - 1)

\* condmap.py lines 73-192: the turn of the loop that finds a CONDITIONAL line at position k
Examine(doc, k, conds, unsupported) ==
    LET start_line == doc[k]
        top_state  == Top(start_line.state_stack)
    IN  IF top_state.subtype = "SINGLE_LINE"
        THEN Outcome(k, conds, unsupported,
                     <<Diag("single-line conditional ignored", start_line.id)>>)
        ELSE IF top_state.subtype = "END"
        THEN Outcome(k, conds, unsupported,
                     IF start_line.id \notin unsupported
                     THEN <<Diag("endif encountered with no pair", start_line.id)>>
                     ELSE <<>>)
        ELSE ExamineStart(doc, k, conds, unsupported)

\* the first position at or after from whose line is a conditional directive,
\* Len(doc) + 1 when there is none: the turns that only do idx += 1 are skipped
NextDirective(doc, from) ==
    IF \E i \in from..Len(doc) : Top(doc[i].state_stack).type = "CONDITIONAL"
    THEN CHOOSE i \in from..Len(doc) :
            /\ Top(doc[i].state_stack).type = "CONDITIONAL"
            /\ \A j \in from..(i - 1) : Top(doc[j].state_stack).type # "CONDITIONAL"
    ELSE Len(doc) + 1

\* the index _make_map starts from
FirstIdx == 1

----------------------------------------------------------------------------
(* preprocess_conditionals.py: the role strings and process_conditionals.   *)

\* the orders in which a set of values can be iterated
Orders(values) ==
    {o \in [1..Cardinality(values) -> values] :
        \A i, j \in 1..Cardinality(values) : o[i] = o[j] => i = j}

\* ' '.join(pieces)
JoinSpace(pieces) ==
    LET Upto[i \in 0..Len(pieces)] ==
            IF i = 0 THEN <<>>
            ELSE IF i = 1 THEN pieces[1]
            ELSE Upto[i - 1] \o <<" ">> \o pieces[i]
    IN  Upto[Len(pieces)]

\* dotroles(values), the set iterated in the order o
dotroles(o) == JoinSpace([i \in 1..Len(o) |-> <<".", ATTRIBUTE, ":">> \o o[i]])

\* attroles(values), the set iterated in the order o
attroles(o) ==
    <<"role=", "\"">> \o JoinSpace([i \in 1..Len(o) |-> <<ATTRIBUTE, ":">> \o o[i]]) \o <<"\"">>

\* a prepend that loses the prefix
PrependNothing(doc, pos, prefix) == doc

\* Line.prepend
Prepend(doc, pos, prefix) == [doc EXCEPT ![pos].content = prefix \o @]

\* Line.append
AppendText(doc, pos, suffix) == [doc EXCEPT ![pos].content = @ \o suffix]

\* Parsed.next_line by position: 0 for None
NextPos(doc, pos) == IF pos < Len(doc) THEN pos + 1 ELSE 0

\* an insertion on the wrong side of the target line
CreateBelow(doc, pos, id, content) == InsertAt(doc, pos, Line(id, content))

\* Parsed.create_line_before(target_line, content), the new line having the given id
create_line_before(doc, pos, id, content) == InsertAt(doc, pos - 1, Line(id, content))

\* Parsed.create_line_after(target_line, content), the new line having the given id
create_line_after(doc, pos, id, content) == InsertAt(doc, pos, Line(id, content))

\* first_line.content = marker + " [" + dotroles + "]#" + content[len(marker)+1:]
SpliceRole(doc, pos, marker, role, keep_marker) ==
    [doc EXCEPT ![pos].content =
        (IF keep_marker THEN marker \o <<" ">> ELSE <<>>)
        \o role \o Drop(@, Len(marker) + 1)]

InlineRole(o) == <<"[">> \o dotroles(o) \o <<"]", "#">>

AttributeLine(o) == <<"[">> \o attroles(o) \o <<"]">>

Walked(doc, next_id, diags) == [doc |-> doc, next_id |-> next_id, diags |-> diags, fatal |-> ""]

WalkFailed(doc, next_id, diags, error) ==
    [doc |-> doc, next_id |-> next_id, diags |-> diags, fatal |-> error]

\* the walk over the lines of a list that starts at position cur (lines 157-196):
\* the position of the first line that is not in the list, 0 when the endif is
\* reached first, -1 when the end of the document is
RECURSIVE ListEnd(_, _, _, _)
ListEnd(doc, cur, walking, end_id) ==
    IF walking = 0 THEN -1
    ELSE IF doc[walking].id = end_id THEN 0
    ELSE IF doc[walking].state_stack = <<>> THEN -1
    ELSE LET top == Top(doc[walking].state_stack)
             in_list(state) == /\ state.type = "LIST_ITEM"
                               /\ Get(state, "list_start_line") = <<doc[cur].id>>
         IN  IF in_list(top)
             THEN ListEnd(doc, cur, NextPos(doc, walking), end_id)
             ELSE IF /\ top.type = "DELIMITED_BLOCK"
                     /\ Len(doc[walking].state_stack) > 1
                     /\ in_list(Top(Pop(doc[walking].state_stack)))
             THEN IF Get(top, "block_end_line") = <<>>
                  THEN ListEnd(doc, cur, NextPos(doc, walking), end_id)
                  ELSE LET b == IndexOfId(doc, top.parameters["block_end_line"])
                       IN  IF b = 0 THEN -1 ELSE ListEnd(doc, cur, NextPos(doc, b), end_id)
             ELSE IF top.type \in {"CONDITIONAL", "ATTRIBUTE_DEFINITION", "LINE_COMMENT"}
             THEN ListEnd(doc, cur, NextPos(doc, walking), end_id)
             ELSE walking

\* the diagnostics of that walk: a block of the list whose end was not recorded
RECURSIVE ListEndDiags(_, _, _, _)
ListEndDiags(doc, cur, walking, end_id) ==
    IF walking = 0 \/ walking > Len(doc) THEN <<>>
    ELSE IF doc[walking].id = end_id \/ doc[walking].state_stack = <<>> THEN <<>>
    ELSE LET top == Top(doc[walking].state_stack)
             in_list(state) == /\ state.type = "LIST_ITEM"
                               /\ Get(state, "list_start_line") = <<doc[cur].id>>
         IN  IF in_list(top)
             THEN ListEndDiags(doc, cur, NextPos(doc, walking), end_id)
             ELSE IF /\ top.type = "DELIMITED_BLOCK"
                     /\ Len(doc[walking].state_stack) > 1
                     /\ in_list(Top(Pop(doc[walking].state_stack)))
             THEN IF Get(top, "block_end_line") = <<>>
                  THEN <<Diag("block end not found", doc[walking].id)>>
                       \o ListEndDiags(doc, cur, NextPos(doc, walking), end_id)
                  ELSE LET b == IndexOfId(doc, top.parameters["block_end_line"])
                       IN  IF b = 0 THEN <<>>
                           ELSE ListEndDiags(doc, cur, NextPos(doc, b), end_id)
             ELSE IF top.type \in {"CONDITIONAL", "ATTRIBUTE_DEFINITION", "LINE_COMMENT"}
             THEN ListEndDiags(doc, cur, NextPos(doc, walking), end_id)
             ELSE <<>>

\* the block-based walk of process_conditionals (lines 97-233) from position pos,
\* block_attributes_set being flag
RECURSIVE BlockWalk(_, _, _, _, _, _, _)
BlockWalk(doc, pos, flag, cond, o, next_id, diags) ==
    IF pos = 0
    THEN WalkFailed(doc, next_id, diags, "AttributeError")
    ELSE IF doc[pos].id = cond.end_id
    THEN Walked(doc, next_id, diags)
    ELSE IF doc[pos].state_stack = <<>>
    THEN WalkFailed(doc, next_id, diags, "IndexError")
    ELSE
    LET top      == Top(doc[pos].state_stack)
        inserted == create_line_before(doc, pos, next_id, AttributeLine(o))
        \* the document, the position of the current line in it and the next id,
        \* after "if not block_attributes_set: create_line_before(...)"
        with_doc == IF flag THEN doc ELSE inserted
        with_pos == IF flag THEN pos ELSE pos + 1
        with_id  == IF flag THEN next_id ELSE next_id + 1
    IN  IF top.type = "BLOCK_PREFIX" /\ top.subtype = "BLOCK_ATTRIBUTES"
        THEN LET clean_text == Rstrip(doc[pos].content)
             IN  IF clean_text = <<>> \/ clean_text[Len(clean_text)] # "]"
                 THEN WalkFailed(doc, next_id, diags, "RuntimeError")
                 ELSE BlockWalk([doc EXCEPT ![pos].content =
                                    Take(clean_text, Len(clean_text) - 1)
                                    \o <<",">> \o attroles(o) \o <<"]">>],
                                NextPos(doc, pos), TRUE, cond, o, next_id, diags)
        ELSE IF top.type = "BLOCK_PREFIX" /\ top.subtype = "BLOCK_TITLE"
        THEN BlockWalk(with_doc, NextPos(with_doc, with_pos), TRUE, cond, o, with_id, diags)
        ELSE IF top.type = "PARAGRAPH" /\ top.subtype = "FIRST_LINE"
        THEN BlockWalk(with_doc, NextPos(with_doc, with_pos), FALSE, cond, o, with_id, diags)
        ELSE IF top.type = "DELIMITED_BLOCK" /\ top.subtype = "START"
        THEN LET comment == top.parameters["delimiter"][1] = "/"
                 d    == IF comment THEN doc ELSE with_doc
                 p    == IF comment THEN pos ELSE with_pos
                 n    == IF comment THEN next_id ELSE with_id
                 f    == IF comment THEN flag ELSE FALSE
                 b    == IF Get(top, "block_end_line") = <<>> THEN 0
                         ELSE IndexOfId(d, top.parameters["block_end_line"])
             IN  IF Get(top, "block_end_line") = <<>>
                 THEN BlockWalk(d, NextPos(d, p), f, cond, o, n,
                                Append(diags, Diag("block end not found", doc[pos].id)))
                 ELSE IF b = 0
                 THEN WalkFailed(d, n, diags, "KeyError")
                 ELSE BlockWalk(d, NextPos(d, b), f, cond, o, n, diags)
        ELSE IF top.type = "LIST_ITEM" /\ top.subtype = "FIRST_LINE"
        THEN LET list_start == Get(top, "list_start_line") = <<doc[pos].id>>
                 after == IF list_start
                          THEN ListEnd(doc, pos, NextPos(doc, pos), cond.end_id) ELSE 0
                 walk_diags == IF list_start
                               THEN diags \o ListEndDiags(doc, pos, NextPos(doc, pos), cond.end_id)
                               ELSE diags
                 marker == Get(top, "marker")
             IN  IF after = -1
                 THEN WalkFailed(doc, next_id, walk_diags, "AttributeError")
                 ELSE IF after > 0
                 THEN \* the whole list is inside the span
                      BlockWalk(with_doc, after + (with_pos - pos), FALSE, cond, o,
                                with_id, walk_diags)
                 ELSE IF marker = <<>> \/ marker = <<<<>>>>
                 THEN WalkFailed(doc, next_id, walk_diags, "RuntimeError")
                 ELSE BlockWalk(SpliceRole(doc, pos, marker[1],
                                           InlineRole(o) \o <<"{empty}", "#", " ">>, TRUE),
                                NextPos(doc, pos), flag, cond, o, next_id, walk_diags)
        ELSE IF top.type = "SECTION_HEADER"
        THEN BlockWalk(inserted, NextPos(inserted, pos + 1), flag, cond, o, next_id + 1, diags)
        ELSE BlockWalk(doc, NextPos(doc, pos),
                       IF IsBlank(doc[pos]) \/ top.type \in {"CONDITIONAL", "LINE_COMMENT",
                                                             "ATTRIBUTE_DEFINITION"}
                       THEN flag ELSE FALSE,
                       cond, o, next_id, diags)

----------------------------------------------------------------------------
(* The raw input lines the model draws from. *)

BlankLine     == <<>>
TextLine      == <<"t", " ">>
IfdefLine     == <<"ifdef", "::", "a", "[", "]">>
IfndefLine    == <<"ifndef", "::", "a", "[", "]">>
IfdefUnknown  == <<"ifdef", "::", "z", "[", "]">>
IfdefPlus     == <<"ifdef", "::", "a", "+", "b", "[", "]">>
IfevalLine    == <<"ifeval", "::", "[", "x", "]">>
SingleLine    == <<"ifdef", "::", "a", "[", "t", "]">>
EndifLine     == <<"endif", "::", "[", "]">>
ListingLine   == <<"-", "-", "-", "-">>
OpenLine      == <<"-", "-">>
ItemLine      == <<"*", " ", "i">>
SubItemLine   == <<"*", "*", " ", "j">>
PlusLine      == <<"+">>
AttributesLine == <<"[", "x", "]">>
TitleLine     == <<".", "T">>
HeaderLine    == <<"=", " ", "H">>
CommentLine   == <<"/", "/", "c">>
AttrDefLine   == <<":", "n", ":">>

\* every shape _parse_line tells apart
ParseShapes ==
    {BlankLine, TextLine, IfdefLine, EndifLine, ListingLine, OpenLine,
     ItemLine, SubItemLine, PlusLine, AttributesLine, TitleLine, HeaderLine,
     CommentLine}

\* the directives, and the lines that change the context around them
DirectiveShapes ==
    {BlankLine, TextLine, IfdefLine, IfevalLine, SingleLine, EndifLine, ListingLine,
     AttrDefLine}

\* the lines of a document with conditional spans
Shapes ==
    {BlankLine, TextLine, IfdefLine, IfndefLine, EndifLine, ListingLine}

----------------------------------------------------------------------------
(* Parsed.__init__ *)

Init ==
    /\ input = <<>>
    /\ lines = <<>>
    /\ running = <<State("ROOT", "NORMAL", NoParams)>>
    /\ next_line_id = 1
    /\ pc = "parse"
    /\ log = <<>>
    /\ idx = 0
    /\ scan = <<>>
    /\ conditionals = <<>>
    /\ end_ids_unsupported = {}
    /\ cidx = 0
    /\ ridx = 0
    /\ pool = {}
    /\ called = <<>>
    /\ legacy = <<>>

\* one turn of the loop of Parsed.__init__: _parse_line on the next input line,
\* as far as the document and the carried stack go
ParseTurn(content, bound) ==
    /\ pc = "parse"
    /\ Len(input) < bound
    /\ LET r == parse_line(content, running, next_line_id, lines)
       IN  /\ input' = Append(input, content)
           /\ IF r.fatal = "ValueError" \/ running = <<>>
              THEN \* raised before the Line is made
                   /\ lines' = lines
                   /\ next_line_id' = next_line_id
              ELSE /\ lines' = Append(r.doc, WithStack(Line(next_line_id, Rstrip(content)),
                                                       r.line_stack))
                   /\ next_line_id' = next_line_id + 1
           /\ running' = r.result
           /\ pc' = IF r.fatal = "" THEN "parse" ELSE "fatal"
           /\ log' = log \o r.diags \o
                     (IF r.fatal = "" THEN <<>> ELSE <<Diag(r.fatal, next_line_id)>>)
    /\ UNCHANGED <<idx, scan, conditionals, end_ids_unsupported, cidx, ridx, pool, called>>

\* one turn of the loop of Parsed.__init__
ParseLine(content, bound) == ParseTurn(content, bound) /\ UNCHANGED legacy

\* a counter that runs on from the last original id
RunOn(next_id) == next_id

\* Parsed._original_text_processed: the value it leaves in _next_line_id
original_text_processed(next_id) ==
    IF next_id > ADDED_LINE_START THEN next_id ELSE ADDED_LINE_START

\* the end of Parsed.__init__: _original_text_processed and the empty-stack validation
FinishParse ==
    /\ pc = "parse"
    /\ next_line_id' = original_text_processed(next_line_id)
    /\ IF \E i \in 1..Len(lines) : Len(lines[i].state_stack) = 0
       THEN /\ pc' = "fatal"
            /\ log' = Append(log, Diag("RuntimeError", 0))
       ELSE /\ pc' = "parsed"
            /\ log' = IF next_line_id > ADDED_LINE_START
                      THEN Append(log, Diag("did not jump line ID", next_line_id - 1))
                      ELSE log
    /\ UNCHANGED <<input, lines, running, idx, scan, conditionals,
                   end_ids_unsupported, cidx, ridx, pool, called, legacy>>

NextParse ==
    \/ \E content \in ParseShapes : ParseLine(content, MaxParseLines)
    \/ FinishParse

\* the structural parser alone, over every line shape
SpecParse == Init /\ [][NextParse]_vars

NextDirectives ==
    \/ \E content \in DirectiveShapes : ParseLine(content, MaxDirectiveLines)
    \/ FinishParse

\* the structural parser alone, over documents of directives
SpecDirectives == Init /\ [][NextDirectives]_vars

----------------------------------------------------------------------------
(* ConditionalsMap.__init__ and _make_map *)

\* ConditionalsMap.__init__ up to the first turn of the loop of _make_map
StartMap ==
    /\ pc = "parsed"
    /\ pc' = "map"
    /\ idx' = FirstIdx
    /\ conditionals' = <<>>
    /\ end_ids_unsupported' = {}
    /\ UNCHANGED <<input, lines, running, next_line_id, log, scan, cidx, ridx, pool, called, legacy>>

\* what a turn of the loop leaves in the variables of _make_map
Leave(k, o) ==
    /\ idx' = o.idx
    /\ conditionals' = o.conditionals
    /\ end_ids_unsupported' = o.unsupported
    /\ log' = log \o o.diags
    /\ pc' = IF o.fatal # "" THEN "fatal" ELSE IF o.scan # 0 THEN "scan" ELSE "map"
    /\ scan' = IF o.fatal = "" /\ o.scan # 0 THEN <<k, o.scan>> ELSE <<>>

\* the turns of the loop up to and including the next one that finds a directive
MakeMapStep ==
    /\ pc = "map"
    /\ NextDirective(lines, idx + 1) <= Len(lines)
    /\ LET k == NextDirective(lines, idx + 1)
       IN  Leave(k, Examine(lines, k, conditionals, end_ids_unsupported))
    /\ UNCHANGED <<input, lines, running, next_line_id, cidx, ridx, pool, called, legacy>>

\* one turn of the inner loop that looks for the last non-blank line of the span
\* (condmap.py lines 192-199); its "continue" stays in the inner loop
ScanStep ==
    /\ pc = "scan"
    /\ LET k == scan[1]
           n == scan[2]
           e == IndexOfId(lines, Top(lines[k].state_stack).parameters["end_line"])
           reports == Len(SelectSeq(log, LAMBDA d : d.kind = "conditional of blanks"))
       IN  IF ~IsBlank(lines[n])
           THEN Leave(k, Classify(lines, k, conditionals, end_ids_unsupported, n))
           ELSE IF n = k + 1
           THEN /\ reports < MaxDiag
                /\ log' = Append(log, Diag("conditional of blanks", idx))
                /\ idx' = e
                /\ UNCHANGED <<pc, scan, conditionals, end_ids_unsupported>>
           ELSE /\ scan' = <<k, n - 1>>
                /\ UNCHANGED <<pc, idx, log, conditionals, end_ids_unsupported>>
    /\ UNCHANGED <<input, lines, running, next_line_id, cidx, ridx, pool, called, legacy>>

\* the turns after the last directive, and the return of _make_map
FinishMap ==
    /\ pc = "map"
    /\ NextDirective(lines, idx + 1) > Len(lines)
    /\ idx' = Max(idx, Len(lines))
    /\ pc' = "process"
    /\ cidx' = 0
    /\ UNCHANGED <<input, lines, running, next_line_id, log, scan, conditionals,
                   end_ids_unsupported, ridx, pool, called, legacy>>

----------------------------------------------------------------------------
(* process_conditionals and remove_conditionals *)

\* the values of a set in the order in which the universe order u iterates them
Iterate(values, u) == SelectSeq(u, LAMBDA x : x \in values)

Processed(doc, next_id, diags, next_cidx) ==
    [doc |-> doc, next_id |-> next_id, diags |-> diags, fatal |-> "", cidx |-> next_cidx]

ProcessFailed(doc, next_id, diags, error, at) ==
    [doc |-> doc, next_id |-> next_id, diags |-> diags, fatal |-> error, cidx |-> at]

\* the marker of the state on top of the line at position pos, <<>> when "not marker"
MarkerAt(doc, pos) ==
    IF doc[pos].state_stack = <<>> THEN <<>>
    ELSE LET marker == Get(Top(doc[pos].state_stack), "marker")
         IN  IF marker = <<<<>>>> THEN <<>> ELSE marker

\* lines 62-84: the members of a group after the first, conds[i + 1] being the next
\* candidate (i is the code's idx)
RECURSIVE GroupRest(_, _, _, _, _, _)
GroupRest(doc, conds, i, expected_id, marker, u) ==
    IF ~(/\ i < Len(conds)
         /\ conds[i + 1].type = "GROUP_START_LIST_ITEM"
         /\ conds[i + 1].start_id = expected_id)
    THEN Processed(doc, 0, <<>>, i)
    ELSE LET cond  == conds[i + 1]
             s     == IndexOfId(doc, cond.start_id)
             e     == IndexOfId(doc, cond.end_id)
             first == s + 1
             last  == e - 1
             spliced == AppendText(
                            SpliceRole(doc, first, marker,
                                       InlineRole(Iterate(cond.values, u)), FALSE),
                            last, <<"#">>)
         IN  IF s = 0 \/ e = 0
             THEN ProcessFailed(doc, 0, <<>>, "KeyError", i)
             ELSE IF doc[first].state_stack = <<>>
             THEN ProcessFailed(doc, 0, <<>>, "IndexError", i)
             ELSE IF MarkerAt(doc, first) # <<marker>>
             THEN ProcessFailed(doc, 0, <<>>, "RuntimeError", i)
             ELSE IF NextPos(doc, e) = 0
             THEN ProcessFailed(spliced, 0, <<>>, "AttributeError", i)
             ELSE GroupRest(spliced, conds, i + 1, doc[NextPos(doc, e)].id, marker, u)

\* one turn of the outer loop of process_conditionals, on conds[i + 1]
ProcessOne(doc, conds, i, next_id, u) ==
    LET cond  == conds[i + 1]
        s     == IndexOfId(doc, cond.start_id)
        e     == IndexOfId(doc, cond.end_id)
        first == s + 1
        last  == e - 1
        o     == Iterate(cond.values, u)
        marker == MarkerAt(doc, first)
        spliced == AppendText(SpliceRole(doc, first, marker[1], InlineRole(o), TRUE),
                              last, <<"#">>)
    IN  IF s = 0 \/ e = 0
        THEN ProcessFailed(doc, next_id, <<>>, "KeyError", i)
        ELSE IF cond.type = "PARTIAL"
        THEN Processed(AppendText(Prepend(doc, first, InlineRole(o)), last, <<"#">>),
                       next_id, <<>>, i + 1)
        ELSE IF cond.type \in {"PART_START_LIST_ITEM", "GROUP_START_LIST_ITEM"}
        THEN IF doc[first].state_stack = <<>>
             THEN ProcessFailed(doc, next_id, <<>>, "IndexError", i)
             ELSE IF marker = <<>>
             THEN ProcessFailed(doc, next_id, <<>>, "RuntimeError", i)
             ELSE IF cond.type = "PART_START_LIST_ITEM"
             THEN Processed(spliced, next_id, <<>>, i + 1)
             ELSE IF NextPos(doc, e) = 0
             THEN ProcessFailed(spliced, next_id, <<>>, "AttributeError", i)
             ELSE [GroupRest(spliced, conds, i + 1, doc[NextPos(doc, e)].id, marker[1], u)
                      EXCEPT !.next_id = next_id]
        ELSE LET walk == BlockWalk(doc, first, FALSE, cond, o, next_id, <<>>)
             IN  IF walk.fatal # ""
                 THEN ProcessFailed(walk.doc, walk.next_id, walk.diags, walk.fatal, i)
                 ELSE Processed(walk.doc, walk.next_id, walk.diags, i + 1)

\* one turn of the outer loop of process_conditionals
ProcessStep ==
    /\ pc = "process"
    /\ cidx < Len(conditionals)
    /\ \E u \in Orders(Values) :
          LET r == ProcessOne(lines, conditionals, cidx, next_line_id, u)
          IN  /\ lines' = r.doc
              /\ next_line_id' = r.next_id
              /\ cidx' = r.cidx
              /\ log' = log \o r.diags \o
                        (IF r.fatal = "" THEN <<>>
                         ELSE <<Diag(r.fatal, conditionals[cidx + 1].start_id)>>)
              /\ pc' = IF r.fatal = "" THEN "process" ELSE "fatal"
    /\ UNCHANGED <<input, running, idx, scan, conditionals, end_ids_unsupported, ridx, pool, called, legacy>>

\* the return of process_conditionals
FinishProcess ==
    /\ pc = "process"
    /\ cidx >= Len(conditionals)
    /\ pc' = "remove"
    /\ ridx' = 0
    /\ UNCHANGED <<input, lines, running, next_line_id, log, idx, scan, conditionals,
                   end_ids_unsupported, cidx, pool, called, legacy>>

\* a removal that takes the first line of the document, whatever the id
RemoveFirst(doc, line_id) == RemoveAt(doc, 1)

\* Parsed.remove_by_id, on the document alone
remove_by_id(doc, line_id) == RemoveAt(doc, IndexOfId(doc, line_id))

\* one turn of the outer loop of remove_conditionals: both directive lines of a span
RemoveStep ==
    /\ pc = "remove"
    /\ ridx < Len(conditionals)
    /\ LET cond == conditionals[ridx + 1]
           without_start == remove_by_id(lines, cond.start_id)
       IN  IF IndexOfId(lines, cond.start_id) = 0
           THEN /\ pc' = "fatal"
                /\ log' = Append(log, Diag("KeyError", cond.start_id))
                /\ UNCHANGED <<lines, ridx>>
           ELSE IF IndexOfId(without_start, cond.end_id) = 0
           THEN /\ pc' = "fatal"
                /\ log' = Append(log, Diag("KeyError", cond.end_id))
                /\ lines' = without_start
                /\ UNCHANGED ridx
           ELSE /\ lines' = remove_by_id(without_start, cond.end_id)
                /\ ridx' = ridx + 1
                /\ UNCHANGED <<pc, log>>
    /\ UNCHANGED <<input, running, next_line_id, idx, scan, conditionals,
                   end_ids_unsupported, cidx, pool, called, legacy>>

\* the return of remove_conditionals: main writes the contents of parsed.lines
WriteOutput ==
    /\ pc = "remove"
    /\ ridx >= Len(conditionals)
    /\ pc' = "done"
    /\ UNCHANGED <<input, lines, running, next_line_id, log, idx, scan, conditionals,
                   end_ids_unsupported, cidx, ridx, pool, called, legacy>>

Next ==
    \/ \E content \in Shapes : ParseLine(content, MaxLines)
    \/ FinishParse
    \/ StartMap
    \/ MakeMapStep
    \/ ScanStep
    \/ FinishMap
    \/ ProcessStep
    \/ FinishProcess
    \/ RemoveStep
    \/ WriteOutput

\* main: parse, classify, transform, remove the directives, write
Spec == Init /\ [][Next]_vars

----------------------------------------------------------------------------
(* Parsed as a document store, driven by a caller after parsing.  pool is    *)
(* the set of Lines the caller has handled: made by create_line, removed,    *)
(* or handed to an insert.                                                   *)

\* the lines of a document the store is exercised on
StoreShapes == {TextLine}

\* the Lines a caller can hold
Known == pool \cup {lines[i] : i \in 1..Len(lines)}

KeyError == [error |-> "KeyError"]

\* Parsed.line_by_id: the first line with the id, or KeyError
line_by_id(doc, line_id) ==
    IF IndexOfId(doc, line_id) = 0 THEN KeyError ELSE doc[IndexOfId(doc, line_id)]

\* self.lines.index(line): 0-based, -1 for ValueError (lines are compared by identity)
index(doc, line) == IndexOfId(doc, line.id) - 1

\* Parsed.insert_before on the document alone; unchanged when index raises
insert_before(doc, target_line, new_line) ==
    IF index(doc, target_line) = -1 THEN doc
    ELSE InsertAt(doc, index(doc, target_line), new_line)

\* Parsed.insert_after on the document alone; unchanged when index raises
insert_after(doc, target_line, new_line) ==
    IF index(doc, target_line) = -1 THEN doc
    ELSE InsertAt(doc, index(doc, target_line) + 1, new_line)

\* Parsed.remove on the document alone; unchanged when list.remove raises
remove(doc, line) ==
    IF index(doc, line) = -1 THEN doc ELSE RemoveAt(doc, index(doc, line) + 1)

StoreFrame == UNCHANGED <<input, running, pc, log, idx, scan, conditionals,
                          end_ids_unsupported, cidx, ridx, legacy>>

\* the line before, and None for a line the document does not hold
PreviousOrNone(doc, line) ==
    IF index(doc, line) <= 0 THEN <<>> ELSE doc[index(doc, line)]

\* Parsed.previous_line: the line before, <<>> (None) for the first line, or KeyError
previous_line(doc, line) ==
    IF index(doc, line) = -1 THEN KeyError
    ELSE IF index(doc, line) = 0 THEN <<>>
    ELSE doc[index(doc, line)]

\* Parsed.next_line: the line after, <<>> (None) for the last line, or KeyError
next_line(doc, line) ==
    IF index(doc, line) = -1 THEN KeyError
    ELSE IF index(doc, line) = Len(doc) - 1 THEN <<>>
    ELSE doc[index(doc, line) + 2]

\* a call of a store method on the line with the id, and its outcome: the value
\* returned (<<>> for None) or the exception raised
Call(op, line_id, outcome) == [op |-> op, line_id |-> line_id, returned |-> outcome]

\* Parsed.create_line(content)
CreateLine(content) ==
    /\ pc = "parsed"
    /\ next_line_id < ADDED_LINE_START + MaxStoreOps
    /\ pool' = pool \cup {Line(next_line_id, content)}
    /\ next_line_id' = next_line_id + 1
    /\ called' = Call("create_line", next_line_id, Line(next_line_id, content))
    /\ UNCHANGED lines
    /\ StoreFrame

\* Parsed.create_line_before(target_line, content)
CreateLineBefore(target_line, content) ==
    /\ pc = "parsed"
    /\ next_line_id < ADDED_LINE_START + MaxStoreOps
    /\ next_line_id' = next_line_id + 1
    /\ lines' = insert_before(lines, target_line, Line(next_line_id, content))
    /\ pool' = IF index(lines, target_line) = -1 THEN pool
               ELSE pool \cup {Line(next_line_id, content)}
    /\ called' = Call("create_line_before", target_line.id,
                      IF index(lines, target_line) = -1 THEN ValueError
                      ELSE Line(next_line_id, content))
    /\ StoreFrame

\* Parsed.create_line_after(target_line, content)
CreateLineAfter(target_line, content) ==
    /\ pc = "parsed"
    /\ next_line_id < ADDED_LINE_START + MaxStoreOps
    /\ next_line_id' = next_line_id + 1
    /\ lines' = insert_after(lines, target_line, Line(next_line_id, content))
    /\ pool' = IF index(lines, target_line) = -1 THEN pool
               ELSE pool \cup {Line(next_line_id, content)}
    /\ called' = Call("create_line_after", target_line.id,
                      IF index(lines, target_line) = -1 THEN ValueError
                      ELSE Line(next_line_id, content))
    /\ StoreFrame

\* Parsed.insert_before(target_line, new_line)
InsertBefore(target_line, new_line) ==
    /\ pc = "parsed"
    /\ Len(lines) < MaxStoreLines + MaxStoreOps
    /\ lines' = insert_before(lines, target_line, new_line)
    /\ pool' = IF index(lines, target_line) = -1 THEN pool ELSE pool \cup {new_line}
    /\ called' = Call("insert_before", target_line.id,
                      IF index(lines, target_line) = -1 THEN ValueError ELSE <<>>)
    /\ UNCHANGED next_line_id
    /\ StoreFrame

\* Parsed.insert_after(target_line, new_line)
InsertAfter(target_line, new_line) ==
    /\ pc = "parsed"
    /\ Len(lines) < MaxStoreLines + MaxStoreOps
    /\ lines' = insert_after(lines, target_line, new_line)
    /\ pool' = IF index(lines, target_line) = -1 THEN pool ELSE pool \cup {new_line}
    /\ called' = Call("insert_after", target_line.id,
                      IF index(lines, target_line) = -1 THEN ValueError ELSE <<>>)
    /\ UNCHANGED next_line_id
    /\ StoreFrame

\* Parsed.remove(line)
Remove(line) ==
    /\ pc = "parsed"
    /\ lines' = remove(lines, line)
    /\ pool' = IF index(lines, line) = -1 THEN pool ELSE pool \cup {line}
    /\ called' = Call("remove", line.id,
                      IF index(lines, line) = -1 THEN ValueError ELSE <<>>)
    /\ UNCHANGED next_line_id
    /\ StoreFrame

\* Parsed.remove_by_id(line_id)
RemoveById(line_id) ==
    /\ pc = "parsed"
    /\ IF line_by_id(lines, line_id) = KeyError
       THEN UNCHANGED <<lines, pool>>
       ELSE /\ lines' = remove(lines, line_by_id(lines, line_id))
            /\ pool' = pool \cup {line_by_id(lines, line_id)}
    /\ called' = Call("remove_by_id", line_id,
                      IF line_by_id(lines, line_id) = KeyError THEN KeyError ELSE <<>>)
    /\ UNCHANGED next_line_id
    /\ StoreFrame

\* Parsed.line_by_id(line_id)
LineById(line_id) ==
    /\ pc = "parsed"
    /\ called' = Call("line_by_id", line_id, line_by_id(lines, line_id))
    /\ UNCHANGED <<lines, pool, next_line_id>>
    /\ StoreFrame

\* Parsed.previous_line(line)
PreviousLine(line) ==
    /\ pc = "parsed"
    /\ called' = Call("previous_line", line.id, previous_line(lines, line))
    /\ UNCHANGED <<lines, pool, next_line_id>>
    /\ StoreFrame

\* Parsed.next_line(line)
NextLine(line) ==
    /\ pc = "parsed"
    /\ called' = Call("next_line", line.id, next_line(lines, line))
    /\ UNCHANGED <<lines, pool, next_line_id>>
    /\ StoreFrame

\* the ids a caller may ask for
StoreIds == (1..(MaxStoreLines + 1)) \cup (ADDED_LINE_START..(ADDED_LINE_START + MaxStoreOps))

NextStore ==
    \/ \E content \in StoreShapes : ParseLine(content, MaxStoreLines)
    \/ FinishParse
    \/ \E content \in StoreShapes : CreateLine(content)
    \/ \E target_line \in Known : \E content \in StoreShapes :
          CreateLineBefore(target_line, content)
    \/ \E target_line \in Known : \E content \in StoreShapes :
          CreateLineAfter(target_line, content)
    \/ \E target_line \in Known : \E new_line \in Known : InsertBefore(target_line, new_line)
    \/ \E target_line \in Known : \E new_line \in Known : InsertAfter(target_line, new_line)
    \/ \E line \in Known : Remove(line)
    \/ \E line_id \in StoreIds : RemoveById(line_id)
    \/ \E line_id \in StoreIds : LineById(line_id)
    \/ \E line \in Known : PreviousLine(line)
    \/ \E line \in Known : NextLine(line)

\* a parsed document under the store operations of Parsed
SpecStore == Init /\ [][NextStore]_vars

----------------------------------------------------------------------------
(* Properties of the parser. *)

\* the state on top of the line's stack has the type and the subtype
TopIs(line, type, subtype) ==
    /\ line.state_stack # <<>>
    /\ Top(line.state_stack).type = type
    /\ Top(line.state_stack).subtype = subtype

\* C1: once Parsed(lines) has returned, every line of the document has a
\* non-empty state stack and every state on every stack has a subtype that
\* VALID_SUBTYPES allows for its type, the states whose subtype was assigned in
\* place included; and State() of a pair that the table does not allow is a
\* ValueError.
C1_StacksValid ==
    /\ pc = "parsed" =>
          \A i \in 1..Len(lines) :
             /\ lines[i].state_stack # <<>>
             /\ \A j \in 1..Len(lines[i].state_stack) :
                   /\ lines[i].state_stack[j].type \in StateTypes
                   /\ lines[i].state_stack[j].subtype
                         \in VALID_SUBTYPES[lines[i].state_stack[j].type]
    /\ \A t \in StateTypes : \A st \in StateSubtypes :
          (State(t, st, NoParams) = ValueError) <=> (st \notin VALID_SUBTYPES[t])

\* a parsed document with a closed block (END assigned in place) and a list item
\* that a blank line put into TERMINATED
C1_Witness ==
    /\ pc = "parsed"
    /\ \E i \in 1..Len(lines) : TopIs(lines[i], "DELIMITED_BLOCK", "END")
    /\ \E i \in 1..Len(lines) : TopIs(lines[i], "LIST_ITEM", "TERMINATED")

\* the START line of a block that has been closed
ClosedBlockStart(line) ==
    /\ TopIs(line, "DELIMITED_BLOCK", "START")
    /\ Get(Top(line.state_stack), "block_end_line") # <<>>

\* the closed START at position i points at exactly one line, a later one, which
\* is the END of the same delimiter and points back
BlockEndMatches(doc, i) ==
    LET start == Top(doc[i].state_stack)
        ends  == {j \in 1..Len(doc) : doc[j].id = start.parameters["block_end_line"]}
    IN  /\ Cardinality(ends) = 1
        /\ \A j \in ends :
              /\ j > i
              /\ TopIs(doc[j], "DELIMITED_BLOCK", "END")
              /\ Get(Top(doc[j].state_stack), "delimiter") = Get(start, "delimiter")
              /\ Get(Top(doc[j].state_stack), "block_start_line") = <<doc[i].id>>

\* the END line at position j has closed a START line, which points at it
BlockStartSealed(doc, j) ==
    \E i \in 1..(j - 1) :
       /\ <<doc[i].id>> = Get(Top(doc[j].state_stack), "block_start_line")
       /\ ClosedBlockStart(doc[i])
       /\ Top(doc[i].state_stack).parameters["block_end_line"] = doc[j].id

\* C2: every DELIMITED_BLOCK/START line whose block has been closed (a line
\* closed it, or its block_end_line is set) has a block_end_line that is the id
\* of exactly one later line, whose top state is DELIMITED_BLOCK/END with the
\* same delimiter and with block_start_line the id of the START line; and a
\* block_end_line that has been set is not changed by any later parsed line.
C2_BlockEnds ==
    [][/\ \A i \in 1..Len(lines') :
             ClosedBlockStart(lines'[i]) => BlockEndMatches(lines', i)
       /\ \A j \in 1..Len(lines') :
             TopIs(lines'[j], "DELIMITED_BLOCK", "END") => BlockStartSealed(lines', j)
       /\ \A i \in 1..Len(lines) :
             ClosedBlockStart(lines[i]) =>
                /\ i <= Len(lines')
                /\ lines'[i].id = lines[i].id
                /\ ClosedBlockStart(lines'[i])
                /\ Top(lines'[i].state_stack).parameters["block_end_line"]
                      = Top(lines[i].state_stack).parameters["block_end_line"]]_vars

\* a block was closed and a further block was opened and closed after it
C2_Witness ==
    /\ pc = "parsed"
    /\ \E i, j \in 1..Len(lines) :
          /\ i < j
          /\ ClosedBlockStart(lines[i])
          /\ ClosedBlockStart(lines[j])
          /\ Top(lines[i].state_stack).parameters["block_end_line"] < lines[j].id

\* a CONDITIONAL/START line that no endif has sealed
UnsealedStart(line) ==
    /\ TopIs(line, "CONDITIONAL", "START")
    /\ Get(Top(line.state_stack), "end_line") = <<-1>>

\* a CONDITIONAL/START line that an endif has sealed
SealedStart(line) ==
    /\ TopIs(line, "CONDITIONAL", "START")
    /\ Get(Top(line.state_stack), "end_line") # <<-1>>

\* the matched pairs <<position of START, position of END>> of a document
MatchedPairs(doc) ==
    {p \in (1..Len(doc)) \X (1..Len(doc)) :
        /\ SealedStart(doc[p[1]])
        /\ Get(Top(doc[p[1]].state_stack), "end_line") = <<doc[p[2]].id>>}

\* C3: an endif line seals the nearest preceding CONDITIONAL/START line whose
\* end_line is still -1: that end_line becomes the id of the endif and the END
\* state records start_line, no other line changing; an endif with no such
\* START before it is reported, its END records no start_line and parsing
\* continues; the end_line of a START never changes once set; a SINGLE_LINE
\* conditional is never matched; and the matched pairs are nested or disjoint,
\* never partially overlapping.
C3_EndifSeals ==
    [][LET n    == Len(lines')
           open == {i \in 1..Len(lines) : UnsealedStart(lines[i])}
           m    == CHOOSE i \in open : \A j \in open : j <= i
       IN  /\ (/\ Len(input') = Len(input) + 1
               /\ input'[Len(input')] = EndifLine)
              => /\ n = Len(lines) + 1
                 /\ TopIs(lines'[n], "CONDITIONAL", "END")
                 /\ pc' = "parse"
                 /\ IF open # {}
                    THEN /\ Get(Top(lines'[m].state_stack), "end_line") = <<lines'[n].id>>
                         /\ Get(Top(lines'[n].state_stack), "start_line") = <<lines[m].id>>
                         /\ \A i \in (1..Len(lines)) \ {m} : lines'[i] = lines[i]
                         /\ log' = log
                    ELSE /\ Get(Top(lines'[n].state_stack), "start_line") = <<>>
                         /\ \A i \in 1..Len(lines) : lines'[i] = lines[i]
                         /\ log' = Append(log, Diag("endif without matching ifdef",
                                                    lines'[n].id))
           /\ \A i \in 1..Len(lines) :
                 SealedStart(lines[i]) => i <= n /\ lines'[i] = lines[i]
           /\ \A i \in 1..n :
                 TopIs(lines'[i], "CONDITIONAL", "SINGLE_LINE") =>
                    /\ Get(Top(lines'[i].state_stack), "end_line") = <<>>
                    /\ \A j \in 1..n :
                          TopIs(lines'[j], "CONDITIONAL", "END") =>
                             Get(Top(lines'[j].state_stack), "start_line") # <<lines'[i].id>>
           /\ \A p, q \in MatchedPairs(lines') :
                 /\ p[1] < p[2]
                 /\ ~(p[1] < q[1] /\ q[1] < p[2] /\ p[2] < q[2])]_vars

\* an endif without a START was passed and parsing went on; then a START was
\* sealed past a single-line conditional and past a pair nested in it
C3_Witness ==
    /\ \E j \in 1..Len(lines) :
          /\ TopIs(lines[j], "CONDITIONAL", "END")
          /\ Get(Top(lines[j].state_stack), "start_line") = <<>>
          /\ j < Len(lines)
    /\ \E p \in MatchedPairs(lines) :
          \E i \in (p[1] + 1)..(p[2] - 1) :
             \/ TopIs(lines[i], "CONDITIONAL", "SINGLE_LINE")
             \/ SealedStart(lines[i])

----------------------------------------------------------------------------
(* Properties of the document store. *)

\* the ids of the lines the caller has created, removed or inserted
HandledIds == {line.id : line \in pool}

\* the number of places at which the document holds a line with the id
Places(doc, line_id) == Cardinality({i \in 1..Len(doc) : doc[i].id = line_id})

\* C4: the N input lines get the ids 1..N in reading order; a line created
\* afterwards by create_line, create_line_before or create_line_after gets an
\* id that is at least 10000, greater than every original id and the id of no
\* other line; and through create_line_before, create_line_after,
\* insert_before, insert_after, remove and remove_by_id, line_by_id(i) returns
\* the same Line for every original id i that was not removed, and the lines
\* that no operation was given keep their relative order.
C4_StableIds ==
    [][pc' = "parsed" =>
        LET N         == Len(input')
            untouched == (1..N) \ HandledIds'
        IN  /\ pc = "parse" =>
                  /\ Len(lines') = N
                  /\ \A i \in 1..N : /\ lines'[i].id = i
                                     /\ lines'[i].content = Rstrip(input'[i])
            /\ \A line \in Known' \ Known :
                  /\ line.id >= 10000
                  /\ line.id > N
                  /\ \A other \in Known : other.id # line.id
            /\ \A a, b \in Known' : a.id = b.id => a = b
            /\ \A i \in untouched :
                  /\ Places(lines', i) = 1
                  /\ line_by_id(lines', i) # KeyError
            /\ \A i \in 1..N :
                  (Places(lines, i) > 0 /\ Places(lines', i) > 0 /\ pc = "parsed")
                     => line_by_id(lines', i) = line_by_id(lines, i)
            /\ \A i, j \in untouched :
                  i < j => IndexOfId(lines', i) < IndexOfId(lines', j)]_vars

\* a created line stands before the second original line, the first original
\* line has been removed, and a created line is held outside the document
C4_Witness ==
    /\ pc = "parsed"
    /\ Len(input) = 2
    /\ Len(lines) = 2
    /\ lines[1].id = ADDED_LINE_START + 1
    /\ lines[2].id = 2
    /\ {1, ADDED_LINE_START} \subseteq HandledIds
    /\ Places(lines, ADDED_LINE_START) = 0

----------------------------------------------------------------------------
(* Properties of the classifier and of the transformer. *)

\* _make_map has returned and process_conditionals has not yet changed a line
Mapped == pc = "process" /\ cidx = 0

\* the recorded spans
Recorded == {conditionals[i] : i \in 1..Len(conditionals)}

\* the line ids the diagnostics name
ReportedIds == {log[i].line : i \in 1..Len(log)}

\* C5: _make_map examines every CONDITIONAL/START line, the one on the very
\* first line of the document included: when it has returned, every START line
\* is the start of a recorded span or is named by a diagnostic (a rejection, or
\* the warning about a conditional nested in a recorded span).
C5_EveryStartExamined ==
    Mapped =>
       \A i \in 1..Len(lines) :
          TopIs(lines[i], "CONDITIONAL", "START") =>
             \/ \E c \in Recorded : c.start_id = lines[i].id
             \/ lines[i].id \in ReportedIds

\* the same for the START lines after the first line
StartsAfterFirstExamined ==
    Mapped =>
       \A i \in 2..Len(lines) :
          TopIs(lines[i], "CONDITIONAL", "START") =>
             \/ \E c \in Recorded : c.start_id = lines[i].id
             \/ lines[i].id \in ReportedIds

\* the text of the original line with the id, as Parsed keeps it
Original(line_id) == Rstrip(input[line_id])

\* the texts of the original lines with the ids a..b
Originals(a, b) == [k \in 1..(b - a + 1) |-> Original(a + k - 1)]

\* what main writes: the contents of the lines, in order
Output == [i \in 1..Len(lines) |-> lines[i].content]

\* the stack of the original line with the id (stacks are not changed after parsing)
StackOf(line_id) == lines[IndexOfId(lines, line_id)].state_stack

\* the original line with the id is in the document and has the state on top
OriginalIs(line_id, type, subtype) ==
    /\ IndexOfId(lines, line_id) # 0
    /\ TopIs(lines[IndexOfId(lines, line_id)], type, subtype)

\* the content of the span is exactly one paragraph
OneParagraph(c) ==
    /\ c.start_id + 1 < c.end_id
    /\ OriginalIs(c.start_id + 1, "PARAGRAPH", "FIRST_LINE")
    /\ \A i \in (c.start_id + 2)..(c.end_id - 1) : OriginalIs(i, "PARAGRAPH", "NORMAL")

\* [role="<attribute>:<token>"]
RoleLine(token) == <<"[", "role=", "\"", ATTRIBUTE, ":">> \o token \o <<"\"", "]">>

\* C6: a span recorded as BLOCKS whose content is exactly one paragraph is
\* processed without an error; after process_conditionals and
\* remove_conditionals both directive lines are gone and exactly one new line,
\* [role="<attribute>:<token>"], stands immediately before the first line of
\* the paragraph; when it is the only recorded span, the output is the
\* original lines without the two directives and with that one line added.
C6_ParagraphBlock ==
    \A c \in Recorded :
       (/\ pc \in {"process", "remove", "done", "fatal"}
        /\ c.type = "BLOCKS"
        /\ OneParagraph(c)
        /\ Cardinality(c.values) = 1)
       => /\ pc # "fatal"
          /\ pc = "done" =>
                LET first == IndexOfId(lines, c.start_id + 1)
                    token == CHOOSE v \in c.values : TRUE
                IN  /\ IndexOfId(lines, c.start_id) = 0
                    /\ IndexOfId(lines, c.end_id) = 0
                    /\ first > 1
                    /\ lines[first - 1].id >= ADDED_LINE_START
                    /\ lines[first - 1].content = RoleLine(token)
                    /\ first > 2 => lines[first - 2].id < ADDED_LINE_START
                    /\ \A i \in (c.start_id + 1)..(c.end_id - 1) :
                          /\ IndexOfId(lines, i) = first + (i - c.start_id - 1)
                          /\ lines[IndexOfId(lines, i)].content = Original(i)
                    /\ Len(conditionals) = 1 =>
                          Output = Originals(1, c.start_id - 1)
                                   \o <<RoleLine(token)>>
                                   \o Originals(c.start_id + 1, c.end_id - 1)
                                   \o Originals(c.end_id + 1, Len(input))

\* the output of a document whose only recorded span is a BLOCKS span over a
\* paragraph of two lines, with lines before and after the span
C6_Witness ==
    /\ pc = "done"
    /\ Len(conditionals) = 1
    /\ conditionals[1].type = "BLOCKS"
    /\ OneParagraph(conditionals[1])
    /\ conditionals[1].start_id > 1
    /\ conditionals[1].end_id = conditionals[1].start_id + 3
    /\ conditionals[1].end_id < Len(input)

\* a span at lines k..k+2 in the middle of a paragraph: START after a line of
\* the paragraph, one line of it as content, END before a further line of it
MidParagraph(k) ==
    /\ k >= 2
    /\ k + 3 <= Len(input)
    /\ IndexOfId(lines, k) # 0
    /\ SealedStart(lines[IndexOfId(lines, k)])
    /\ Get(Top(StackOf(k)), "end_line") = <<k + 2>>
    /\ \A i \in {k - 1, k + 1, k + 3} :
          /\ IndexOfId(lines, i) # 0
          /\ Top(StackOf(i)).type = "PARAGRAPH"
          /\ Get(Top(StackOf(i)), "first_line") = Get(Top(StackOf(k - 1)), "first_line")

\* [.<attribute>:<token>]#<text>#
InlineText(token, text) ==
    <<"[", ".", ATTRIBUTE, ":">> \o token \o <<"]", "#">> \o text \o <<"#">>

\* C7: a span whose START directly follows a line of a paragraph, whose
\* content is one text line and whose END is directly followed by another line
\* of that paragraph (the span not lying inside a recorded span) is recorded as
\* PARTIAL; in the output its content line reads [.<attribute>:<token>]#<text>#,
\* both directives are gone and the lines of the paragraph are contiguous;
\* when it is the only recorded span no other line has changed.
C7_InlinePartial ==
    /\ Mapped =>
          \A k \in 1..Len(input) :
             (/\ MidParagraph(k)
              /\ ~\E c \in Recorded : c.start_id < k /\ k < c.end_id)
             => \E c \in Recorded :
                   /\ c.type = "PARTIAL"
                   /\ c.start_id = k
                   /\ c.end_id = k + 2
                   /\ c.values # {}
    /\ \A c \in Recorded :
          (/\ pc \in {"process", "remove", "done", "fatal"}
           /\ c.type = "PARTIAL"
           /\ c.end_id = c.start_id + 2
           /\ Cardinality(c.values) = 1
           /\ IndexOfId(lines, c.start_id + 1) # 0
           /\ IndexOfId(lines, c.start_id - 1) # 0
           /\ IndexOfId(lines, c.start_id + 3) # 0
           /\ Top(StackOf(c.start_id - 1)).type = "PARAGRAPH"
           /\ Top(StackOf(c.start_id + 1)).type = "PARAGRAPH"
           /\ Top(StackOf(c.start_id + 3)).type = "PARAGRAPH")
          => /\ pc # "fatal"
             /\ pc = "done" =>
                   LET at    == IndexOfId(lines, c.start_id + 1)
                       token == CHOOSE v \in c.values : TRUE
                   IN  /\ IndexOfId(lines, c.start_id) = 0
                       /\ IndexOfId(lines, c.end_id) = 0
                       /\ lines[at].content = InlineText(token, Original(c.start_id + 1))
                       /\ at > 1 /\ at < Len(lines)
                       /\ lines[at - 1].id = c.start_id - 1
                       /\ lines[at + 1].id = c.start_id + 3
                       /\ Len(conditionals) = 1 =>
                             Output = Originals(1, c.start_id - 1)
                                      \o <<InlineText(token, Original(c.start_id + 1))>>
                                      \o Originals(c.end_id + 1, Len(input))

\* the output of a document whose only recorded span is such a PARTIAL span
C7_Witness ==
    /\ pc = "done"
    /\ Len(conditionals) = 1
    /\ conditionals[1].type = "PARTIAL"
    /\ conditionals[1].end_id = conditionals[1].start_id + 2
    /\ conditionals[1].end_id < Len(input)
    /\ \A i \in {conditionals[1].start_id - 1, conditionals[1].start_id + 1,
                 conditionals[1].start_id + 3} :
          /\ IndexOfId(lines, i) # 0
          /\ Top(StackOf(i)).type = "PARAGRAPH"
    /\ Len(lines) = Len(input) - 2

\* the position of the END line of the sealed START at position k, 0 when it is gone
EndOf(doc, k) == IndexOfId(doc, Top(doc[k].state_stack).parameters["end_line"])

\* the span that starts at position k passes every check of _make_map on its
\* own: taken alone it would be recorded
Eligible(doc, k) ==
    LET e        == EndOf(doc, k)
        examined == ExamineStart(doc, k, <<>>, {})
        content  == {n \in (k + 1)..(e - 1) : ~IsBlank(doc[n])}
        last     == CHOOSE n \in content : \A m \in content : m <= n
    IN  /\ e > k + 1
        /\ examined.scan # 0
        /\ content # {}
        /\ Classify(doc, k, <<>>, {}, last).conditionals # <<>>

\* C8: the list built by _make_map is in ascending document order; no
\* recorded span starts between the START and the END of another recorded
\* span, and the directives of a span nested in a recorded span stay in the
\* output; and a span that has a span nested in it, lies in no recorded span
\* and is eligible on its own is recorded.
C8_NestedSpans ==
    /\ Mapped =>
          /\ \A i, j \in 1..Len(conditionals) :
                i < j => IndexOfId(lines, conditionals[i].start_id)
                            < IndexOfId(lines, conditionals[j].start_id)
          /\ \A c, d \in Recorded :
                ~(/\ IndexOfId(lines, c.start_id) < IndexOfId(lines, d.start_id)
                  /\ IndexOfId(lines, d.start_id) < IndexOfId(lines, c.end_id))
          /\ \A k \in 1..Len(lines) :
                (/\ SealedStart(lines[k])
                 /\ \E n \in (k + 1)..(EndOf(lines, k) - 1) : SealedStart(lines[n])
                 /\ ~\E c \in Recorded :
                        /\ IndexOfId(lines, c.start_id) < k
                        /\ k < IndexOfId(lines, c.end_id)
                 /\ Eligible(lines, k))
                => \E c \in Recorded : c.start_id = lines[k].id
    /\ pc = "done" =>
          \A c \in Recorded : \A i \in (c.start_id + 1)..(c.end_id - 1) :
             CONDITIONAL(Original(i)).matched =>
                /\ IndexOfId(lines, i) # 0
                /\ lines[IndexOfId(lines, i)].content = Original(i)

\* the same with the outer START after the first line
NestedSpansAfterFirst ==
    Mapped =>
       \A k \in 2..Len(lines) :
          (/\ SealedStart(lines[k])
           /\ \E n \in (k + 1)..(EndOf(lines, k) - 1) : SealedStart(lines[n])
           /\ ~\E c \in Recorded :
                  /\ IndexOfId(lines, c.start_id) < k
                  /\ k < IndexOfId(lines, c.end_id)
           /\ Eligible(lines, k))
          => \E c \in Recorded : c.start_id = lines[k].id

\* the ids of the lines at which the blocks around a line were opened
BlocksAround(line) ==
    LET blocks == SelectSeq(line.state_stack, LAMBDA st : st.type = "DELIMITED_BLOCK")
    IN  [i \in 1..Len(blocks) |-> blocks[i].parameters["block_start_line"]]

\* the sealed START at position k and its END are not in the same block
CrossesBlock(doc, k) ==
    /\ SealedStart(doc[k])
    /\ EndOf(doc, k) # 0
    /\ BlocksAround(doc[k]) # BlocksAround(doc[EndOf(doc, k)])

\* C9: no Conditional is recorded for a span whose START and END lines are not
\* in the same delimited block (START inside a block and END outside, the
\* reverse, or the two in different blocks of the same delimiter), whatever its
\* operator and expression; and both directive lines stay in the document,
\* unchanged, through every later step.
C9_CrossBlock ==
    [][/\ \A k \in 1..Len(lines') :
             CrossesBlock(lines', k) =>
                \A c \in Recorded' :
                   /\ c.start_id # lines'[k].id
                   /\ c.end_id # lines'[EndOf(lines', k)].id
       /\ \A k \in 1..Len(lines) :
             CrossesBlock(lines, k) =>
                /\ \E n \in 1..Len(lines') : lines'[n] = lines[k]
                /\ \E n \in 1..Len(lines') : lines'[n] = lines[EndOf(lines, k)]]_vars

\* the output still holds a span that starts in one block and ends in a later
\* block of the same delimiter
C9_Witness ==
    /\ pc = "done"
    /\ \E k \in 2..Len(lines) :
          /\ CrossesBlock(lines, k)
          /\ Len(BlocksAround(lines[k])) = 1
          /\ Len(BlocksAround(lines[EndOf(lines, k)])) = 1
          /\ lines[k].content \in {IfdefLine, IfndefLine}

\* the positions of the sealed STARTs whose content lines are all blank
BlankSpans ==
    {k \in 1..Len(lines) :
        /\ SealedStart(lines[k])
        /\ EndOf(lines, k) > k + 1
        /\ \A n \in (k + 1)..(EndOf(lines, k) - 1) : IsBlank(lines[n])}

\* the reports of a conditional of blanks made so far
BlankReports == SelectSeq(log, LAMBDA d : d.kind = "conditional of blanks")

\* C10: a span whose content lines are all blank is rejected as empty: no
\* Conditional is recorded for it, it is reported, and the loop goes on to the
\* spans that follow, so that no span is reported more than once.
C10_BlankSpanRejected ==
    pc \in {"map", "scan", "process"} =>
       /\ \A k \in BlankSpans : \A c \in Recorded : c.start_id # lines[k].id
       /\ Len(BlankReports) <= Cardinality(BlankSpans)
       /\ Mapped => \A k \in BlankSpans \ {1} : Len(BlankReports) >= 1

----------------------------------------------------------------------------
(* Properties of the whole run. *)

\* everything a step of the pipeline reads: every variable but the diagnostics
\* written so far
ProgramState ==
    <<input, lines, running, next_line_id, pc, idx, scan, conditionals,
      end_ids_unsupported, cidx, ridx, pool>>

\* the pipeline has finished: main has written the output, or an error was raised
Finished == pc \in {"done", "fatal"}

\* C11: for every finite document and recognized-token set the pipeline
\* Parsed, ConditionalsMap, process_conditionals, remove_conditionals
\* eventually finishes, completing or raising an error, and no phase loops for
\* ever: every step advances the run (it reads a line, moves a loop position,
\* changes the document or ends a phase), none leaves everything that the code
\* reads as it was; a turn of a loop that does is taken again without end.
C11_Terminates ==
    [][~Finished /\ ProgramState' # ProgramState]_vars

\* the same for the steps other than the report of a conditional of blanks
AdvancesUnlessBlankReport ==
    [][\/ ~Finished /\ ProgramState' # ProgramState
       \/ /\ pc = "scan"
          /\ Len(BlankReports') = Len(BlankReports) + 1]_vars

\* the ids of the original lines that are neither a directive of a recorded span
\* nor strictly between the directives of one
OutsideSpans ==
    {i \in 1..Len(input) : \A c \in Recorded : i < c.start_id \/ i > c.end_id}

\* every original line outside the recorded spans is in the document once, with
\* the content Parsed gave it, and these lines are in their original order
FrameOutsideSpans ==
    /\ \A i \in OutsideSpans :
          /\ Places(lines, i) = 1
          /\ lines[IndexOfId(lines, i)].content = Original(i)
    /\ \A i, j \in OutsideSpans : i < j => IndexOfId(lines, i) < IndexOfId(lines, j)

\* a sealed START after the first line that lies in no recorded span and is
\* eligible on its own has been recorded
EligibleRecorded ==
    \A k \in 2..Len(lines) :
       (/\ SealedStart(lines[k])
        /\ ~\E c \in Recorded :
               /\ IndexOfId(lines, c.start_id) < k
               /\ k < IndexOfId(lines, c.end_id)
        /\ Eligible(lines, k))
       => \E c \in Recorded : c.start_id = lines[k].id

\* a turn of _make_map that reports something and raises nothing
Reports == pc \in {"map", "scan"} /\ log' # log /\ pc' # "fatal"

\* C12: after process_conditionals and remove_conditionals every original
\* line that is neither a directive of a recorded span nor strictly between
\* the directives of one is still in the document, with unchanged content and
\* in unchanged relative order; both directive lines of every rejected span
\* are among them; and the rejection of a span does not stop the later spans
\* from being classified: after the report the loop of _make_map is at its
\* next turn, and the eligible spans have been recorded when it returns.
C12_FrameOutsideSpans ==
    [][/\ pc' \in {"process", "remove", "done"} => FrameOutsideSpans'
       /\ pc' = "done" =>
             \A i \in 1..Len(input') :
                (/\ CONDITIONAL(Rstrip(input'[i])).matched
                 /\ \A c \in Recorded' : c.start_id # i /\ c.end_id # i
                 /\ i \in OutsideSpans')
                => \E n \in 1..Len(lines') : lines'[n].content = Rstrip(input'[i])
       /\ Mapped' => EligibleRecorded'
       /\ Reports => pc' = "map"]_vars

\* the frame alone, at every step from the return of _make_map on
FrameKept ==
    pc \in {"process", "remove", "done"} => FrameOutsideSpans

\* the loop of _make_map is at its next turn after every report but that of a
\* conditional of blanks
ReportsGoOn ==
    [][Reports => pc' = "map" \/ Len(BlankReports') > Len(BlankReports)]_vars

\* when _make_map returns, the eligible spans after the first line are recorded
EligibleRecordedWhenMapped == Mapped => EligibleRecorded

\* the number of diagnostics that name the line id
DiagnosticsNaming(line_id) == Len(SelectSeq(log, LAMBDA d : d.line = line_id))

\* the line at position k is strictly between the directives of a recorded span
InRecordedSpan(k) ==
    \E c \in Recorded :
       /\ IndexOfId(lines, c.start_id) < k
       /\ k < IndexOfId(lines, c.end_id)

\* the lines that are a recoverable condition of their own: an endif without a
\* START, a START without an endif, a single-line conditional, and a START
\* with an endif that was not recorded; conditionals nested in a recorded span
\* are not counted
ConditionLines ==
    {k \in 1..Len(lines) :
        /\ ~InRecordedSpan(k)
        /\ \/ /\ TopIs(lines[k], "CONDITIONAL", "END")
              /\ Get(Top(lines[k].state_stack), "start_line") = <<>>
           \/ UnsealedStart(lines[k])
           \/ TopIs(lines[k], "CONDITIONAL", "SINGLE_LINE")
           \/ /\ SealedStart(lines[k])
              /\ \A c \in Recorded : c.start_id # lines[k].id}

\* C13: over one run, parsing and classification together, each recoverable
\* condition (unmatched endif, START without endif, ifeval, + expression,
\* out-of-universe token, cross-block span, attribute or title adjacency,
\* multi-item span, unclean boundary, empty or blank span, single-line
\* conditional) produces exactly one diagnostic, which names the id of its
\* line: never none and never more than one.
C13_OneDiagnostic ==
    Mapped => \A k \in ConditionLines : DiagnosticsNaming(lines[k].id) = 1

\* the same for the conditions after the first line that are not an endif
\* without a START
OneDiagnosticOtherwise ==
    Mapped =>
       \A k \in ConditionLines \ {1} :
          \/ DiagnosticsNaming(lines[k].id) = 1
          \/ /\ TopIs(lines[k], "CONDITIONAL", "END")
             /\ DiagnosticsNaming(lines[k].id) = 2

\* the line lies in a verbatim delimited block
InVerbatimBlock(line) ==
    \E j \in 1..Len(line.state_stack) :
       /\ line.state_stack[j].type = "DELIMITED_BLOCK"
       /\ line.state_stack[j].subtype = "VERBATIM"

\* the sealed START at position k and its END lie in the same verbatim block
InsideVerbatim(doc, k) ==
    /\ SealedStart(doc[k])
    /\ EndOf(doc, k) # 0
    /\ InVerbatimBlock(doc[k])
    /\ BlocksAround(doc[k]) = BlocksAround(doc[EndOf(doc, k)])

\* C14: _make_map records no Conditional for a span whose START and END both
\* lie inside the same verbatim delimited block: the span is rejected, its two
\* directive lines stay in the document through every later step, and the
\* lines of the block are unchanged.
C14_VerbatimRejected ==
    [][/\ \A k \in 1..Len(lines') :
             InsideVerbatim(lines', k) =>
                \A c \in Recorded' : c.start_id # lines'[k].id
       /\ \A k \in 1..Len(lines) :
             InsideVerbatim(lines, k) =>
                \A n \in k..EndOf(lines, k) :
                   \E m \in 1..Len(lines') : lines'[m] = lines[n]]_vars

\* a span is recorded only if it does not lie in a verbatim block, unless it is
\* recorded as BLOCKS
VerbatimOnlyAsBlocks ==
    \A k \in 1..Len(lines) :
       InsideVerbatim(lines, k) =>
          \A c \in Recorded : c.start_id = lines[k].id => c.type = "BLOCKS"

\* the text holds <attribute>:<token> for the token
NamesRole(content, token) ==
    \E i \in 1..Len(content) :
       /\ i + 1 + Len(token) <= Len(content)
       /\ content[i] = ATTRIBUTE
       /\ content[i + 1] = ":"
       /\ SubSeq(content, i + 2, i + 1 + Len(token)) = token

\* the text is role markup for the values: an inline [.role]# or a role= attribute
\* that names every one of them
RoleMarkup(content, values) ==
    /\ \A token \in values : NamesRole(content, token)
    /\ \/ Contains(content, "role=")
       \/ StartsWith(content, <<"[", ".">>) /\ Contains(content, "#")
       \/ \E i \in 1..Len(content) : SubSeq(content, i, i + 2) = <<" ", "[", ".">>

\* the ids of the content lines of the span that are still in the document and
\* are text: not blank, not a directive, a comment or an attribute definition
TextOf(c) ==
    {i \in (c.start_id + 1)..(c.end_id - 1) :
        /\ IndexOfId(lines, i) # 0
        /\ Original(i) # <<>>
        /\ Top(StackOf(i)).type
              \notin {"CONDITIONAL", "LINE_COMMENT", "ATTRIBUTE_DEFINITION"}}

\* the position of the first original line at or after position n, 0 when none
OriginalFrom(doc, n) ==
    LET at == {m \in n..Len(doc) : doc[m].id < ADDED_LINE_START}
    IN  IF at = {} THEN 0 ELSE CHOOSE m \in at : \A o \in at : m <= o

\* the line at position n carries the role markup of the span: it is a content
\* line of the span, or a line created directly before one
AnnotatedAt(doc, n, c) ==
    /\ RoleMarkup(doc[n].content, c.values)
    /\ OriginalFrom(doc, n) # 0
    /\ doc[OriginalFrom(doc, n)].id > c.start_id
    /\ doc[OriginalFrom(doc, n)].id < c.end_id

\* C15: whenever remove_conditionals has deleted the directives of a recorded
\* span that contains at least one non-blank line other than directives,
\* comments and attribute definitions, the output carries role markup with the
\* value set of that span (an inline [.role]#...# wrap or a role= attribute)
\* on content of that span: no condition is dropped silently.
C15_RoleAnnotated ==
    pc = "done" =>
       \A c \in Recorded :
          TextOf(c) # {} => \E n \in 1..Len(lines) : AnnotatedAt(lines, n, c)

\* the same for the spans that do not lie in a verbatim block and whose first
\* content line is text
AnnotatedFromTextStart ==
    pc = "done" =>
       \A c \in Recorded :
          (/\ c.start_id + 1 \in TextOf(c)
           /\ ~InVerbatimBlock(lines[IndexOfId(lines, c.start_id + 1)]))
          => \E n \in 1..Len(lines) : AnnotatedAt(lines, n, c)

\* the content is the text without the whitespace at its end
RightTrimOf(content, text) ==
    /\ Len(content) <= Len(text)
    /\ content = SubSeq(text, 1, Len(content))
    /\ \A n \in (Len(content) + 1)..Len(text) : text[n] \in WS
    /\ content # <<>> => content[Len(content)] \notin WS

\* C17: if _make_map records no Conditional (the document has no directives,
\* or every span is rejected), the line contents that main writes are the
\* input lines, each right-trimmed, in the same order and number.
C17_Unchanged ==
    (pc = "done" /\ conditionals = <<>>) =>
       /\ Len(Output) = Len(input)
       /\ \A i \in 1..Len(input) : RightTrimOf(Output[i], input[i])

\* the output of a document with a text line that ends in whitespace and with
\* a span that was reported and not recorded
C17_Witness ==
    /\ pc = "done"
    /\ conditionals = <<>>
    /\ \E i \in 1..Len(input) : input[i] = TextLine /\ Output[i] # input[i]
    /\ \E k \in 1..Len(lines) : SealedStart(lines[k]) /\ lines[k].id \in ReportedIds

----------------------------------------------------------------------------
(* The value sets of the recorded spans, over documents whose directives    *)
(* name one token, several tokens, and tokens outside the recognized set.   *)

MaxValueLines == 6

IfdefBoth  == <<"ifdef", "::", "a", ",", " ", "b", "[", "]">>
IfdefMixed == <<"ifdef", "::", "a", ",", "z", "[", "]">>

ValueShapes ==
    {BlankLine, TextLine, IfdefBoth, IfndefLine, IfdefMixed, EndifLine}

NextValues ==
    \/ \E content \in ValueShapes : ParseLine(content, MaxValueLines)
    \/ FinishParse
    \/ StartMap
    \/ MakeMapStep
    \/ ScanStep
    \/ FinishMap

\* Parsed and ConditionalsMap over documents of value expressions
SpecValues == Init /\ [][NextValues]_vars

\* the text between the "::" and the "[" of a directive line
ExpressionOf(text) == SubSeq(text, 3, IndexFrom(text, "[", 3) - 1)

\* the pieces of the expression between its commas
Pieces(expression) ==
    {SubSeq(expression, i, j) : <<i, j>> \in
        {p \in (1..(Len(expression) + 1)) \X (0..Len(expression)) :
            /\ p[2] >= p[1] - 1
            /\ p[1] = 1 \/ expression[p[1] - 1] = ","
            /\ p[2] = Len(expression) \/ expression[p[2] + 1] = ","
            /\ \A n \in p[1]..p[2] : expression[n] # ","}}

\* the piece without the whitespace around it
Trimmed(piece) ==
    LET inked == {n \in 1..Len(piece) : piece[n] \notin WS}
    IN  IF inked = {} THEN <<>>
        ELSE SubSeq(piece, CHOOSE n \in inked : \A m \in inked : n <= m,
                           CHOOSE n \in inked : \A m \in inked : n >= m)

\* the comma-separated tokens the expression names
NamedTokens(expression) == {Trimmed(piece) : piece \in Pieces(expression)} \ {<<>>}

\* C16: for every recorded Conditional, when the operator is ifdef its values
\* are exactly the comma-separated tokens of the expression, when the operator
\* is ifndef they are exactly the recognized-token set minus those tokens, and
\* a span whose expression names a token outside the recognized set is never
\* recorded.
C16_ValueSets ==
    \A c \in Recorded :
       LET text   == input[c.start_id]
           tokens == NamedTokens(ExpressionOf(text))
       IN  /\ text[1] \in {"ifdef", "ifndef"}
           /\ tokens \subseteq Values
           /\ text[1] = "ifdef" => c.values = tokens
           /\ text[1] = "ifndef" => c.values = Values \ tokens

\* _make_map has returned with a span of ifndef::a[] recorded for the other
\* value, after a span naming an unknown token was reported and passed over
C16_Witness ==
    /\ Mapped
    /\ \E c \in Recorded :
          /\ input[c.start_id] = IfndefLine
          /\ c.values = {<<"b">>}
    /\ \E k \in 1..Len(lines) :
          /\ lines[k].content = IfdefMixed
          /\ SealedStart(lines[k])
          /\ lines[k].id \in ReportedIds

----------------------------------------------------------------------------
(* The order of the transformation and of the removal, over documents long  *)
(* enough for two recorded spans.                                           *)

MaxSpanLines == 7

SpanShapes == {BlankLine, TextLine, IfdefLine, EndifLine}

NextSpans ==
    \/ \E content \in SpanShapes : ParseLine(content, MaxSpanLines)
    \/ FinishParse
    \/ StartMap
    \/ MakeMapStep
    \/ ScanStep
    \/ FinishMap
    \/ ProcessStep
    \/ FinishProcess
    \/ RemoveStep
    \/ WriteOutput

\* main over documents of text and spans
SpecSpans == Init /\ [][NextSpans]_vars

\* the ids of the lines of a document
IdsOf(doc) == {doc[i].id : i \in 1..Len(doc)}

\* the document without the lines that have one of the ids
Without(doc, ids) == SelectSeq(doc, LAMBDA line : line.id \notin ids)

\* the line at position n of the document lies strictly between the directives
\* of one of the spans conds[from + 1] .. conds[to]
WithinSpans(doc, n, conds, from, to) ==
    \E j \in (from + 1)..to :
       /\ IndexOfId(doc, conds[j].start_id) < n
       /\ n < IndexOfId(doc, conds[j].end_id)

\* C18: no line is removed from the document before process_conditionals has
\* finished transforming every recorded span; the spans are transformed in
\* ascending start order, each turn changing lines of the next spans of the
\* list only; afterwards remove_conditionals removes exactly the START and the
\* END line of each recorded Conditional, each once, and never fails because a
\* line to remove is missing.
C18_RemoveAfterProcess ==
    [][/\ pc # "remove" => IdsOf(lines) \subseteq IdsOf(lines')
       /\ pc = "process" =>
             /\ \A i, j \in 1..Len(conditionals) :
                   i < j => conditionals[i].end_id < conditionals[j].start_id
             /\ cidx' >= cidx
             /\ lines' # lines =>
                   /\ cidx < Len(conditionals)
                   /\ \A n \in 1..Len(lines') :
                         (\A m \in 1..Len(lines) : lines[m] # lines'[n]) =>
                            WithinSpans(lines', n, conditionals, cidx,
                                        Max(cidx + 1, cidx'))
       /\ pc = "remove" =>
             /\ cidx = Len(conditionals)
             /\ pc' # "fatal"
             /\ lines' # lines =>
                   LET cond == conditionals[ridx + 1]
                   IN  /\ ridx' = ridx + 1
                       /\ Places(lines, cond.start_id) = 1
                       /\ Places(lines, cond.end_id) = 1
                       /\ lines' = Without(lines, {cond.start_id, cond.end_id})
       /\ pc' = "done" =>
             /\ ridx' = Len(conditionals')
             /\ \A c \in Recorded' :
                   /\ Places(lines', c.start_id) = 0
                   /\ Places(lines', c.end_id) = 0
             /\ \A i \in 1..Len(input') :
                   Places(lines', i) = 0 =>
                      \E c \in Recorded' : i \in {c.start_id, c.end_id}]_vars

\* the output of a document with two recorded spans, both transformed and both
\* without their directives
C18_Witness ==
    /\ pc = "done"
    /\ Len(conditionals) = 2
    /\ Len(input) = 7
    /\ Cardinality(IdsOf(lines) \cap (1..7)) = 3
    /\ \E n \in 1..Len(lines) : lines[n].content # <<>> /\ lines[n].content # <<"t">>

----------------------------------------------------------------------------
(* Properties of the calls of the document store. *)

\* the exceptions a store method raises
Errors == {KeyError, ValueError}

\* C19: line_by_id, remove_by_id, previous_line and next_line raise KeyError,
\* and insert_before, insert_after and remove raise an error, whenever the
\* line they are given is not in the document, and in every such case the
\* line sequence of the document is left unchanged; previous_line of the first
\* line and next_line of the last line return None instead of raising.  (A
\* line counts as the last line when the last place is the only place at which
\* the document holds it; where the line is held, the calls raise nothing, and
\* previous_line and next_line return the neighbour of its first place.)
C19_MissingLineRaises ==
    [][(pc = "parsed" /\ called' # <<>>) =>
        LET absent == Places(lines, called'.line_id) = 0
        IN  /\ (/\ called'.op \in {"line_by_id", "remove_by_id", "previous_line", "next_line"}
                /\ absent)
               => called'.returned = KeyError /\ lines' = lines
            /\ (/\ called'.op \in {"insert_before", "insert_after", "remove"}
                /\ absent)
               => called'.returned \in Errors /\ lines' = lines
            /\ (/\ called'.op \in {"line_by_id", "remove_by_id", "previous_line", "next_line",
                                   "insert_before", "insert_after", "remove"}
                /\ ~absent)
               => called'.returned \notin Errors
            /\ (/\ called'.op = "previous_line"
                /\ lines # <<>>
                /\ lines[1].id = called'.line_id)
               => called'.returned = <<>>
            /\ (/\ called'.op = "next_line"
                /\ lines # <<>>
                /\ lines[Len(lines)].id = called'.line_id
                /\ Places(lines, called'.line_id) = 1)
               => called'.returned = <<>>
            /\ (/\ called'.op = "previous_line"
                /\ ~absent
                /\ lines[1].id # called'.line_id)
               => called'.returned = lines[IndexOfId(lines, called'.line_id) - 1]
            /\ (/\ called'.op = "next_line"
                /\ ~absent
                /\ IndexOfId(lines, called'.line_id) < Len(lines))
               => called'.returned = lines[IndexOfId(lines, called'.line_id) + 1]]_vars

\* a line that was removed is given to remove again, which raises, and the
\* document still holds its other line
C19_Witness ==
    /\ pc = "parsed"
    /\ called # <<>>
    /\ called.op = "remove"
    /\ called.returned = ValueError
    /\ called.line_id \in HandledIds
    /\ called.line_id < ADDED_LINE_START
    /\ Len(lines) = 1

----------------------------------------------------------------------------
(* preprocess-conditionals.py (legacy): apply_line_modifications.  The list *)
(* lines holds strings and is changed in place; to_insert_lines is a dict    *)
(* from 0-based line numbers to texts, to_delete_lines a list of 0-based     *)
(* line numbers of which the code reads the membership only.                 *)

\* the strings of the list, and the texts to insert
LegacyTexts == {"a", "b"}
InsertTexts == {"a", "x"}

\* the line numbers a caller names: those of the longest list and one past it
Linenos == 0..MaxLegacyLines

\* the lists of at most n strings
ListsUpTo(n) == UNION {[1..k -> LegacyTexts] : k \in 0..n}

\* the dicts from line numbers to texts
Dicts == UNION {[keys -> InsertTexts] : keys \in SUBSET Linenos}

\* list.insert(i, x): i is 0-based, and past the end it appends
list_insert(list, i, x) == InsertAt(list, Min(i, Len(list)), x)

\* list.pop(i) for 0 <= i: the list without the element, unchanged when it raises IndexError
list_pop(list, i) == IF i < Len(list) THEN RemoveAt(list, i + 1) ELSE list

\* the overlap that is never found
NoOverlap(to_insert_lines, to_delete_lines) == {}

\* overlap = set(to_insert_lines.keys()) & set(to_delete_lines)
Overlap(to_insert_lines, to_delete_lines) == (DOMAIN to_insert_lines) \cap to_delete_lines

\* the state at the call apply_line_modifications(lines, to_insert_lines, to_delete_lines)
LegacyCall(list, to_insert_lines, to_delete_lines) ==
    [at |-> "called", lines |-> list, original |-> list,
     to_insert_lines |-> to_insert_lines, to_delete_lines |-> to_delete_lines,
     lineno |-> 0, current_correction |-> 0, lines_original_len |-> 0, raised |-> <<>>]

InitLegacy ==
    /\ input = <<>>
    /\ lines = <<>>
    /\ running = <<State("ROOT", "NORMAL", NoParams)>>
    /\ next_line_id = 1
    /\ pc = "legacy"
    /\ log = <<>>
    /\ idx = 0
    /\ scan = <<>>
    /\ conditionals = <<>>
    /\ end_ids_unsupported = {}
    /\ cidx = 0
    /\ ridx = 0
    /\ pool = {}
    /\ called = <<>>
    /\ \E list \in ListsUpTo(MaxLegacyLines) : \E to_insert_lines \in Dicts :
          \E to_delete_lines \in SUBSET Linenos :
             legacy = LegacyCall(list, to_insert_lines, to_delete_lines)

LegacyFrame == UNCHANGED <<input, lines, running, next_line_id, pc, log, idx, scan,
                           conditionals, end_ids_unsupported, cidx, ridx, pool, called>>

\* the overlap check, and the locals set before the loop
LegacyCheck ==
    /\ pc = "legacy"
    /\ legacy.at = "called"
    /\ legacy' = IF Overlap(legacy.to_insert_lines, legacy.to_delete_lines) # {}
                 THEN [legacy EXCEPT !.at = "raised", !.raised = ValueError]
                 ELSE [legacy EXCEPT !.at = "loop",
                                     !.lines_original_len = Len(legacy.lines),
                                     !.current_correction = 0,
                                     !.lineno = 0]
    /\ LegacyFrame

\* one turn of the loop over range(lines_original_len)
LegacyStep ==
    /\ pc = "legacy"
    /\ legacy.at = "loop"
    /\ legacy.lineno < legacy.lines_original_len
    /\ legacy' =
          IF legacy.lineno \in DOMAIN legacy.to_insert_lines
          THEN [legacy EXCEPT
                   !.lines = list_insert(legacy.lines, legacy.lineno + legacy.current_correction,
                                         legacy.to_insert_lines[legacy.lineno]),
                   !.current_correction = legacy.current_correction + 1,
                   !.lineno = legacy.lineno + 1]
          ELSE IF legacy.lineno \in legacy.to_delete_lines
          THEN IF legacy.lineno + legacy.current_correction < Len(legacy.lines)
               THEN [legacy EXCEPT
                        !.lines = list_pop(legacy.lines, legacy.lineno + legacy.current_correction),
                        !.current_correction = legacy.current_correction - 1,
                        !.lineno = legacy.lineno + 1]
               ELSE [legacy EXCEPT !.at = "raised", !.raised = [error |-> "IndexError"]]
          ELSE [legacy EXCEPT !.lineno = legacy.lineno + 1]
    /\ LegacyFrame

\* the loop is over and the function returns None
LegacyReturn ==
    /\ pc = "legacy"
    /\ legacy.at = "loop"
    /\ legacy.lineno = legacy.lines_original_len
    /\ legacy' = [legacy EXCEPT !.at = "returned"]
    /\ LegacyFrame

NextLegacy ==
    \/ LegacyCheck
    \/ LegacyStep
    \/ LegacyReturn

\* one call of the legacy apply_line_modifications on every bounded input
SpecLegacy == InitLegacy /\ [][NextLegacy]_vars

----------------------------------------------------------------------------
(* Properties of the legacy line modifications. *)

RECURSIVE ModifiedFrom(_, _, _, _)
\* the list read from its line number n (0-based) on: before each line the text
\* to insert at its number, and the line itself unless its number is to delete
ModifiedFrom(original, to_insert_lines, to_delete_lines, n) ==
    IF n >= Len(original) THEN <<>>
    ELSE (IF n \in DOMAIN to_insert_lines THEN <<to_insert_lines[n]>> ELSE <<>>)
         \o (IF n \in to_delete_lines THEN <<>> ELSE <<original[n + 1]>>)
         \o ModifiedFrom(original, to_insert_lines, to_delete_lines, n + 1)

\* C20: with the line numbers referring to the list as it was before the call,
\* when no number is in both collections apply_line_modifications returns with
\* the original list in which every line to delete is removed and every text
\* to insert stands immediately before the original line of its number, all
\* other lines in their original order; when some number is in both it raises
\* ValueError and the list is as it was before the call.
C20_LineModifications ==
    pc = "legacy" =>
       LET both == (DOMAIN legacy.to_insert_lines) \cap legacy.to_delete_lines
       IN  /\ legacy.at = "returned" =>
                /\ both = {}
                /\ legacy.lines = ModifiedFrom(legacy.original, legacy.to_insert_lines,
                                               legacy.to_delete_lines, 0)
           /\ legacy.at = "raised" =>
                /\ both # {}
                /\ legacy.raised = ValueError
           /\ both # {} =>
                /\ legacy.at \in {"called", "raised"}
                /\ legacy.lines = legacy.original

\* the call has returned after deleting the first line and inserting a text
\* before the third, a number past the end of the list being among those to delete
C20_Witness ==
    /\ pc = "legacy"
    /\ legacy.at = "returned"
    /\ legacy.original = <<"a", "b", "a">>
    /\ legacy.to_delete_lines = {0, 3}
    /\ DOMAIN legacy.to_insert_lines = {2}
    /\ legacy.lines = <<"b", legacy.to_insert_lines[2], "a">>

----------------------------------------------------------------------------
(* Properties of the parser inside list items. *)

\* _parse_line is about to be given an ordinary line while the carried top is
\* LIST_ITEM/JOINED_FIRST_LINE
OrdinaryAfterJoin ==
    /\ pc = "parse"
    /\ running # <<>>
    /\ Top(running).type = "LIST_ITEM"
    /\ Top(running).subtype = "JOINED_FIRST_LINE"
    /\ Len(input') = Len(input) + 1
    /\ input'[Len(input')] = TextLine

\* C23: when the carried top is LIST_ITEM/JOINED_FIRST_LINE and the next line
\* is ordinary content, _parse_line gives that line the list item's state with
\* joined_start_line set to the line's id and carries the stack forward with
\* the item subtyped JOINED_NORMAL; parsing does not abort.
C23_JoinedFirstLine ==
    [][OrdinaryAfterJoin =>
          /\ pc' = "parse"
          /\ Len(lines') = Len(lines) + 1
          /\ LET line == lines'[Len(lines')]
             IN  /\ line.state_stack # <<>>
                 /\ Top(line.state_stack).type = "LIST_ITEM"
                 /\ Get(Top(line.state_stack), "joined_start_line") = <<line.id>>
          /\ Top(running').type = "LIST_ITEM"
          /\ Top(running').subtype = "JOINED_NORMAL"]_vars

----------------------------------------------------------------------------
(* Properties of the classification and transformation of partial spans.    *)

\* the positions of the non-blank lines between the START and the END of a
\* recorded span, in the document as it was parsed
ContentPositions(c) ==
    {n \in (c.start_id + 1)..(c.end_id - 1) : ~IsBlank(lines[n])}

\* two lines of the same paragraph, or of the same list item
SameParagraphOrItem(a, b) ==
    /\ a.state_stack # <<>>
    /\ b.state_stack # <<>>
    /\ Top(a.state_stack).type = Top(b.state_stack).type
    /\ \/ /\ Top(a.state_stack).type = "PARAGRAPH"
          /\ Get(Top(a.state_stack), "first_line") = Get(Top(b.state_stack), "first_line")
       \/ /\ Top(a.state_stack).type = "LIST_ITEM"
          /\ Get(Top(a.state_stack), "item_start_line")
                = Get(Top(b.state_stack), "item_start_line")

\* C24: every span recorded as PARTIAL has its first and its last non-blank
\* content line in the same paragraph or in the same list item; a span that
\* opens a fresh paragraph but whose last content line belongs to a different
\* paragraph, which continues after the END, is rejected and not recorded as
\* PARTIAL.
C24_PartialInOneParagraph ==
    Mapped =>
       \A c \in Recorded :
          c.type = "PARTIAL" =>
             /\ ContentPositions(c) # {}
             /\ LET first == CHOOSE n \in ContentPositions(c) :
                                \A other \in ContentPositions(c) : n <= other
                    last  == CHOOSE n \in ContentPositions(c) :
                                \A other \in ContentPositions(c) : other <= n
                IN  SameParagraphOrItem(lines[first], lines[last])

\* the same for the spans that start in the middle of a paragraph or of a list item
MidPartialInOneParagraph ==
    Mapped =>
       \A c \in Recorded :
          (/\ c.type = "PARTIAL"
           /\ ~TopIs(lines[c.start_id + 1], "PARAGRAPH", "FIRST_LINE")) =>
             /\ ContentPositions(c) # {}
             /\ LET first == CHOOSE n \in ContentPositions(c) :
                                \A other \in ContentPositions(c) : n <= other
                    last  == CHOOSE n \in ContentPositions(c) :
                                \A other \in ContentPositions(c) : other <= n
                IN  SameParagraphOrItem(lines[first], lines[last])

----------------------------------------------------------------------------
(* main over documents with list items.                                     *)

MaxListLines == 6

ListShapes == {BlankLine, TextLine, IfdefLine, EndifLine, ItemLine}

NextLists ==
    \/ \E content \in ListShapes : ParseLine(content, MaxListLines)
    \/ FinishParse
    \/ StartMap
    \/ MakeMapStep
    \/ ScanStep
    \/ FinishMap
    \/ ProcessStep
    \/ FinishProcess
    \/ RemoveStep
    \/ WriteOutput

\* main over documents of text, list items and spans
SpecLists == Init /\ [][NextLists]_vars

\* the list marker a line of text starts with
MarkerOf(text) == Take(text, RunLen(text, {"*", "."}))

\* the turn of process_conditionals on a record of the type splices the
\* role-open marker after the item marker of the first content line and appends
\* the closing # to the last content line
SplicedAfterMarker(type) ==
    (/\ pc = "process"
     /\ cidx < Len(conditionals)
     /\ conditionals[cidx + 1].type = type
     /\ Cardinality(conditionals[cidx + 1].values) = 1)
    => LET c      == conditionals[cidx + 1]
           first  == c.start_id + 1
           last   == c.end_id - 1
           token  == CHOOSE v \in c.values : TRUE
           marker == MarkerOf(Original(first))
           rest   == Drop(Original(first), Len(marker) + 1)
           opened == marker \o <<" ", "[", ".", ATTRIBUTE, ":">> \o token \o <<"]", "#">> \o rest
       IN  /\ pc' = "process"
           /\ cidx' = cidx + 1
           /\ Len(lines') = Len(lines)
           /\ marker # <<>>
           /\ lines'[IndexOfId(lines', first)].content
                 = IF first = last THEN opened \o <<"#">> ELSE opened
           /\ lines'[IndexOfId(lines', last)].content
                 = IF first = last THEN opened \o <<"#">> ELSE Original(last) \o <<"#">>
           /\ \A n \in 1..Len(lines) :
                 lines[n].id \notin {first, last} => lines'[n] = lines[n]

\* C28: for a SINGLE_LIST_ITEM record, exactly as for a PART_START_LIST_ITEM
\* record, process_conditionals splices the role-open marker [.<role>]# right
\* after the item marker on the first content line of the span and appends the
\* closing # to the last content line of the span.
C28_SingleItemSpliced == [][SplicedAfterMarker("SINGLE_LIST_ITEM")]_vars

\* the same for the PART_START_LIST_ITEM records
PartStartSpliced == [][SplicedAfterMarker("PART_START_LIST_ITEM")]_vars

\* the line is content of the list that starts on the line with the id: not
\* blank, not a directive, a comment or an attribute definition, and with an
\* item of that list in its stack
InList(line, list_id) ==
    /\ ~IsBlank(line)
    /\ Top(line.state_stack).type
          \notin {"CONDITIONAL", "LINE_COMMENT", "ATTRIBUTE_DEFINITION"}
    /\ \E j \in 1..Len(line.state_stack) :
          /\ line.state_stack[j].type = "LIST_ITEM"
          /\ Get(line.state_stack[j], "list_start_line") = <<list_id>>

\* the positions, between the directives of the span, of the first item lines
\* of the lists that lie inside the span as a whole: no line at or before the
\* START and no line at or after the END belongs to the list
WholeListsInside(doc, c) ==
    LET s == IndexOfId(doc, c.start_id)
        e == IndexOfId(doc, c.end_id)
    IN  {n \in (s + 1)..(e - 1) :
            /\ TopIs(doc[n], "LIST_ITEM", "FIRST_LINE")
            /\ Get(Top(doc[n].state_stack), "list_start_line") = <<doc[n].id>>
            /\ Top(doc[n - 1].state_stack).type # "BLOCK_PREFIX"
            /\ \A m \in 1..Len(doc) : InList(doc[m], doc[n].id) => s < m /\ m < e}

\* a line that is not of the list follows the list inside the span
FollowedInside(doc, c, n) ==
    \E m \in (n + 1)..(IndexOfId(doc, c.end_id) - 1) :
       /\ ~IsBlank(doc[m])
       /\ ~InList(doc[m], doc[n].id)
       /\ Top(doc[m].state_stack).type
             \notin {"CONDITIONAL", "LINE_COMMENT", "ATTRIBUTE_DEFINITION"}

\* the turn of process_conditionals on a BLOCKS record attaches one attribute
\* line before the first line of every list of the set and leaves the lines of
\* the list as they are
ListsAttributed(lists) ==
    \A n \in lists :
       LET c     == conditionals[cidx + 1]
           token == CHOOSE v \in c.values : TRUE
           at    == IndexOfId(lines', lines[n].id)
       IN  /\ pc' = "process"
           /\ at > 1
           /\ lines'[at - 1].id >= ADDED_LINE_START
           /\ lines'[at - 1].content = RoleLine(token)
           /\ at > 2 => lines'[at - 2].id < ADDED_LINE_START
           /\ \A m \in 1..Len(lines) :
                 InList(lines[m], lines[n].id) =>
                    \E k \in 1..Len(lines') : lines'[k] = lines[m]

\* process_conditionals is about to transform a BLOCKS record with one value
BlocksTurn ==
    /\ pc = "process"
    /\ cidx < Len(conditionals)
    /\ conditionals[cidx + 1].type = "BLOCKS"
    /\ Cardinality(conditionals[cidx + 1].values) = 1

\* C27: while a BLOCKS span is transformed, for every list whose first item
\* line the walk meets and whose lines all lie inside the span (the list ends
\* at or before the END and nothing after the END continues it), exactly one
\* attribute line is attached before the first line of the list, no item of
\* the list gets an inline role, and the walk resumes after the list.
C27_WholeListAttributed ==
    [][BlocksTurn =>
          ListsAttributed(WholeListsInside(lines, conditionals[cidx + 1]))]_vars

\* the same for the lists that are followed, inside the span, by a line that
\* is not of the list
FollowedListAttributed ==
    [][BlocksTurn =>
          ListsAttributed({n \in WholeListsInside(lines, conditionals[cidx + 1]) :
                              FollowedInside(lines, conditionals[cidx + 1], n)})]_vars

\* the id of the last non-blank content line of the span
LastTextId(c) ==
    LET text == {i \in (c.start_id + 1)..(c.end_id - 1) : Original(i) # <<>>}
    IN  CHOOSE i \in text : \A other \in text : other <= i

\* the text ends with the suffix
EndsWith(text, suffix) ==
    /\ Len(suffix) <= Len(text)
    /\ SubSeq(text, Len(text) - Len(suffix) + 1, Len(text)) = suffix

\* the turn of process_conditionals on a PARTIAL record appends the closing #
\* to the last non-blank content line of the span
PartialClosed(c) ==
    /\ pc' = "process"
    /\ IndexOfId(lines', LastTextId(c)) # 0
    /\ EndsWith(lines'[IndexOfId(lines', LastTextId(c))].content,
                Original(LastTextId(c)) \o <<"#">>)

\* the step changes the content of no line that was blank in the input
BlanksKept ==
    \A n \in 1..Len(lines) :
       (/\ lines[n].id <= Len(input)
        /\ Original(lines[n].id) = <<>>
        /\ lines[n].content = <<>>)
       => \A m \in 1..Len(lines') :
             lines'[m].id = lines[n].id => lines'[m].content = <<>>

\* process_conditionals is about to transform a PARTIAL record
PartialTurn ==
    /\ pc = "process"
    /\ cidx < Len(conditionals)
    /\ conditionals[cidx + 1].type = "PARTIAL"

\* C29: for a PARTIAL record the closing # is appended to the last non-blank
\* content line of the span, the line whose stack the classification compared
\* with the stack of the first content line; and process_conditionals never
\* changes the content of a line that was blank in the input.
C29_PartialClosesLastText ==
    [][/\ PartialTurn => PartialClosed(conditionals[cidx + 1])
       /\ pc = "process" => BlanksKept]_vars

\* the same for the PARTIAL spans whose END directly follows a non-blank line,
\* and for the turns on records of the other types
ClosedWhenNoBlankBeforeEnd ==
    [][/\ (/\ PartialTurn
           /\ LastTextId(conditionals[cidx + 1]) = conditionals[cidx + 1].end_id - 1)
          => /\ PartialClosed(conditionals[cidx + 1])
             /\ BlanksKept
       /\ (pc = "process" /\ ~PartialTurn) => BlanksKept]_vars


-----------------------------------------------------------------------------
(* Parsed.__init__ over documents with comment lines and comment blocks. *)

MaxCommentLines == 4

SlashesLine == <<"/", "/", "/", "/">>

FiveSlashesLine == <<"/", "/", "/", "/", "/">>

TripleSlashLine == <<"/", "/", "/", "x">>

\* the lines of a document with line comments and comment block delimiters
CommentShapes ==
    {BlankLine, TextLine, ListingLine, CommentLine, SlashesLine, FiveSlashesLine,
     TripleSlashLine}

NextComments ==
    \/ \E content \in CommentShapes : ParseLine(content, MaxCommentLines)
    \/ FinishParse

SpecComments == Init /\ [][NextComments]_vars

\* the text starts with "//" and its third character is not "/"
TwoSlashesOnly(text) ==
    /\ StartsWith(text, <<"/", "/">>)
    /\ (Len(text) >= 3 => text[3] # "/")

\* the line at position i is the START of a block, and the state carried from it
\* is that of a verbatim block
OpensVerbatimBlock(i) ==
    /\ TopIs(lines[i], "DELIMITED_BLOCK", "START")
    /\ (i = Len(lines) /\ pc = "parse") =>
          /\ Top(running).type = "DELIMITED_BLOCK"
          /\ Top(running).subtype = "VERBATIM"

\* C30: a line is classified LINE_COMMENT only when its text starts with "//"
\* and its third character is not "/"; a line of four slashes outside a verbatim
\* block is not a line comment but opens a verbatim comment block: its top
\* state is DELIMITED_BLOCK/START and the lines after it are parsed as verbatim.
C30_CommentOrCommentBlock ==
    \A i \in 1..Len(lines) :
       /\ Top(lines[i].state_stack).type = "LINE_COMMENT"
             => TwoSlashesOnly(lines[i].content)
       /\ (lines[i].content = SlashesLine /\ ~InVerbatimBlock(lines[i])
              /\ \A j \in 1..(i - 1) : lines[j].content # SlashesLine)
             => OpensVerbatimBlock(i)

\* a LINE_COMMENT line starts with "//"; outside a verbatim block a "//" line
\* whose third character is not "/" is a LINE_COMMENT, and a line of five
\* slashes that no earlier line of slashes precedes opens a verbatim block
CommentLinesStartWithSlashes ==
    \A i \in 1..Len(lines) :
       /\ Top(lines[i].state_stack).type = "LINE_COMMENT"
             => StartsWith(lines[i].content, <<"/", "/">>)
       /\ (TwoSlashesOnly(lines[i].content) /\ ~InVerbatimBlock(lines[i]))
             => TopIs(lines[i], "LINE_COMMENT", "NORMAL")
       /\ (lines[i].content = FiveSlashesLine /\ ~InVerbatimBlock(lines[i])
              /\ \A j \in 1..(i - 1) : lines[j].content # FiveSlashesLine)
             => OpensVerbatimBlock(i)


-----------------------------------------------------------------------------
(* main over documents of consecutive list-item spans.                      *)

MaxGroupSpans == 3

\* the documents of n spans, each around one list item, with or without a blank
\* line before the span
RECURSIVE RunsOf(_)
RunsOf(n) ==
    IF n = 0 THEN {<<>>}
    ELSE {r \o gap \o <<IfdefLine>> \o item \o <<EndifLine>> :
             r \in RunsOf(n - 1), gap \in {<<>>, <<BlankLine>>},
             item \in {<<ItemLine>>, <<SubItemLine>>}}

\* a blank line, up to MaxGroupSpans spans, and the text that continues the last item
GroupDocs ==
    {<<BlankLine>> \o r \o tail :
        r \in UNION {RunsOf(n) : n \in 1..MaxGroupSpans}, tail \in {<<>>, <<TextLine>>}}

GroupShapes == {BlankLine, TextLine, IfdefLine, EndifLine, ItemLine, SubItemLine}

\* Parsed.__init__ on the documents of GroupDocs, line by line
ParseGroupLine(content) ==
    /\ \E d \in GroupDocs :
          /\ Len(d) > Len(input)
          /\ SubSeq(d, 1, Len(input) + 1) = Append(input, content)
    /\ ParseLine(content, 4 * MaxGroupSpans + 2)

NextGroups ==
    \/ \E content \in GroupShapes : ParseGroupLine(content)
    \/ FinishParse
    \/ StartMap
    \/ MakeMapStep
    \/ ScanStep
    \/ FinishMap
    \/ ProcessStep
    \/ FinishProcess
    \/ RemoveStep
    \/ WriteOutput

SpecGroups == Init /\ [][NextGroups]_vars


\* the number of records at the end of conds that are SINGLE_LIST_ITEM and
\* adjacent: each ends on the line directly before the START of the next, and
\* the last one directly before the line start_id
RECURSIVE ChainLen(_, _, _)
ChainLen(doc, conds, start_id) ==
    IF conds = <<>> THEN 0
    ELSE LET c == conds[Len(conds)]
         IN  IF /\ c.type = "SINGLE_LIST_ITEM"
                /\ IndexOfId(doc, c.end_id) + 1 = IndexOfId(doc, start_id)
             THEN 1 + ChainLen(doc, SubSeq(conds, 1, Len(conds) - 1), c.start_id)
             ELSE 0

\* the step records a span that starts a list item which continues after its END
RecordsListStart ==
    /\ Len(conditionals') = Len(conditionals) + 1
    /\ conditionals'[Len(conditionals')].type
          \in {"PART_START_LIST_ITEM", "GROUP_START_LIST_ITEM"}

\* the step retags the last k records as GROUP_START_LIST_ITEM, records the new
\* span as a member of the group (k >= 1) or as PART_START_LIST_ITEM (k = 0),
\* and changes nothing else
Retagged(k) ==
    /\ conditionals'[Len(conditionals')].type
          = IF k >= 1 THEN "GROUP_START_LIST_ITEM" ELSE "PART_START_LIST_ITEM"
    /\ \A j \in 1..Len(conditionals) :
          conditionals'[j] = IF j > Len(conditionals) - k
                             THEN [conditionals[j] EXCEPT !.type = "GROUP_START_LIST_ITEM"]
                             ELSE conditionals[j]

\* C25: when _make_map records a span that starts a list item which continues
\* after the END, and the records just before it are a chain of k >= 1 adjacent
\* SINGLE_LIST_ITEM records, all k records and the new one become
\* GROUP_START_LIST_ITEM; with no such chain the new record is
\* PART_START_LIST_ITEM and no earlier record changes; and no other step of
\* _make_map changes a record already made.
C25_GroupsRetagged ==
    [][IF RecordsListStart
       THEN Retagged(ChainLen(lines, conditionals,
                              conditionals'[Len(conditionals')].start_id))
       ELSE (pc = "map" /\ pc' = "map") =>
               /\ Len(conditionals') >= Len(conditionals)
               /\ SubSeq(conditionals', 1, Len(conditionals)) = conditionals]_vars

\* the same with the chain cut to its last record: only the record directly
\* before the new span is retagged
LastSingleRetagged ==
    [][IF RecordsListStart
       THEN Retagged(Min(1, ChainLen(lines, conditionals,
                                     conditionals'[Len(conditionals')].start_id)))
       ELSE (pc = "map" /\ pc' = "map") =>
               /\ Len(conditionals') >= Len(conditionals)
               /\ SubSeq(conditionals', 1, Len(conditionals)) = conditionals]_vars

\* a group of two has been recorded
GroupOfTwoRecorded ==
    /\ Mapped
    /\ Len(conditionals) = 2
    /\ \A j \in 1..2 : conditionals[j].type = "GROUP_START_LIST_ITEM"

\* a span was recorded as PART_START_LIST_ITEM after a record that is not
\* adjacent to it
PartStartAfterGap ==
    /\ Mapped
    /\ Len(conditionals) = 2
    /\ conditionals[1].type = "SINGLE_LIST_ITEM"
    /\ conditionals[2].type = "PART_START_LIST_ITEM"


\* the marker of the list item that the record conds[j] starts
MemberMarker(doc, conds, j) == MarkerAt(doc, IndexOfId(doc, conds[j].start_id) + 1)

\* the record conds[j + 1] carries on the unit of conds[j]: it is a
\* GROUP_START_LIST_ITEM record that starts on the line right after the END of
\* conds[j] and has the same marker
CarriesOn(doc, conds, j) ==
    /\ j < Len(conds)
    /\ conds[j + 1].type = "GROUP_START_LIST_ITEM"
    /\ IndexOfId(doc, conds[j + 1].start_id) = IndexOfId(doc, conds[j].end_id) + 1
    /\ MemberMarker(doc, conds, j + 1) = MemberMarker(doc, conds, j)

\* the number of records in the unit that conds[j] starts
RECURSIVE UnitLen(_, _, _)
UnitLen(doc, conds, j) ==
    IF CarriesOn(doc, conds, j) THEN 1 + UnitLen(doc, conds, j + 1) ELSE 1

\* process_conditionals is at a GROUP_START_LIST_ITEM record
GroupTurn ==
    /\ pc = "process"
    /\ cidx < Len(conditionals)
    /\ conditionals[cidx + 1].type = "GROUP_START_LIST_ITEM"

\* the turn takes the whole unit and only the unit: the first member keeps its
\* marker with the role after it, the later members start with the role, every
\* member ends with #, and the run goes on
UnitProcessed ==
    LET n == UnitLen(lines, conditionals, cidx + 1)
    IN  /\ pc' = "process"
        /\ cidx' = cidx + n
        /\ Len(lines') = Len(lines)
        /\ \A j \in (cidx + 1)..(cidx + n) :
              LET first == IndexOfId(lines, conditionals[j].start_id) + 1
                  last  == IndexOfId(lines, conditionals[j].end_id) - 1
                  marker == MemberMarker(lines, conditionals, j)
              IN  /\ marker # <<>>
                  /\ StartsWith(lines'[first].content,
                                IF j = cidx + 1 THEN marker[1] \o <<" ", "[", ".">>
                                ELSE <<"[", ".">>)
                  /\ EndsWith(lines'[last].content, <<"#">>)
        /\ \A j \in (cidx + n + 1)..Len(conditionals) :
              \A p \in IndexOfId(lines, conditionals[j].start_id)
                          ..IndexOfId(lines, conditionals[j].end_id) :
                 lines'[p] = lines[p]

\* C26: process_conditionals takes consecutive GROUP_START_LIST_ITEM records as
\* one unit only while each next record starts on the line right after the END
\* of the one before and has the same list marker: the first member keeps its
\* marker with the role after it, every later member has its marker stripped,
\* each member is closed with # on its own last line; a following record that
\* is not adjacent or has another marker ends the unit and is left for its own
\* turn, and the run is not aborted.
C26_GroupUnits ==
    [][GroupTurn => UnitProcessed]_vars

\* the record after the unit is adjacent to it and has another marker
OtherMarkerFollows ==
    LET last == cidx + UnitLen(lines, conditionals, cidx + 1)
    IN  /\ last < Len(conditionals)
        /\ conditionals[last + 1].type = "GROUP_START_LIST_ITEM"
        /\ IndexOfId(lines, conditionals[last + 1].start_id)
              = IndexOfId(lines, conditionals[last].end_id) + 1

\* the unit is processed as C26 says unless an adjacent record with another
\* marker follows it
UnitsOfOneMarker ==
    [][(GroupTurn /\ ~OtherMarkerFollows) => UnitProcessed]_vars

\* a unit of two members is about to be processed
UnitOfTwo ==
    /\ GroupTurn
    /\ UnitLen(lines, conditionals, cidx + 1) = 2


-----------------------------------------------------------------------------
(* The legacy preprocess-conditionals.py: AsciiDocIndexer and                *)
(* is_conditional_processable. Lines are numbered from 0, as in the code.    *)

MaxIndexerLines == 4

TableLine == <<"|", "=", "=", "=">>

\* the lines of a legacy document: text, directives and block delimiters
IndexerShapes ==
    {TextLine, IfdefLine, IfevalLine, EndifLine, ListingLine, TableLine, OpenLine}

IndexerDocs == UNION {[1..n -> IndexerShapes] : n \in 0..MaxIndexerLines}

\* the keys of the _cond_map of the ConditionalLookup given to the call
LookupChoices == {{}, {<<"a">>}}

\* the text without the [ \t]* that a pattern allows before its $
BeforeEnd(raw) == Rstrip(raw)

\* _IFDEF_IFNDEF.match: <<directive, expr>>, or <<>> for no match
IFDEF_IFNDEF(raw) ==
    LET s == BeforeEnd(raw)
    IN  IF /\ Len(s) >= 5
           /\ s[1] \in {"ifdef", "ifndef"}
           /\ s[2] = "::"
           /\ s[Len(s) - 1] = "[" /\ s[Len(s)] = "]"
           /\ \A i \in 3..(Len(s) - 2) : s[i] \notin {"[", "]"}
        THEN <<s[1], SubSeq(s, 3, Len(s) - 2)>>
        ELSE <<>>

\* _IFEVAL.match: <<directive, expr>>, or <<>> for no match
IFEVAL(raw) ==
    LET s == BeforeEnd(raw)
    IN  IF /\ Len(s) >= 5
           /\ s[1] = "ifeval"
           /\ s[2] = "::"
           /\ s[3] = "[" /\ s[Len(s)] = "]"
           /\ \A i \in 4..(Len(s) - 1) : s[i] # "]"
        THEN <<s[1], SubSeq(s, 4, Len(s) - 1)>>
        ELSE <<>>

\* _ENDIF.match: <<directive, expr>>, or <<>> for no match
ENDIF(raw) ==
    LET s == BeforeEnd(raw)
    IN  IF Len(s) >= 4 /\ s[1] = "endif" /\ s[2] = "::"
        THEN IF /\ s[Len(s) - 1] = "[" /\ s[Len(s)] = "]"
                /\ \A i \in 3..(Len(s) - 2) : s[i] \notin {"[", "]"}
             THEN <<s[1], SubSeq(s, 3, Len(s) - 2)>>
             ELSE IF /\ s[3] = "[" /\ s[Len(s)] = "]"
                     /\ \A i \in 4..(Len(s) - 1) : s[i] # "]"
             THEN <<s[1], SubSeq(s, 4, Len(s) - 1)>>
             ELSE <<>>
        ELSE <<>>

\* _FOUR_MORE_DELIM.match
FOUR_MORE_DELIM(raw) ==
    LET s == BeforeEnd(raw)
    IN  /\ Len(s) >= 4
        /\ s[1] \in {"=", "*", "_", "-", ".", "/", "+"}
        /\ \A i \in 1..Len(s) : s[i] = s[1]

\* _TABLE_DELIM.match
TABLE_DELIM(raw) ==
    LET s == BeforeEnd(raw)
    IN  /\ Len(s) >= 4
        /\ s[1] \in {"|", "!", ",", ":"}
        /\ \A i \in 2..Len(s) : s[i] = "="

\* _OPEN_BLOCK_DELIM.match
OPEN_BLOCK_DELIM(raw) == BeforeEnd(raw) = <<"-", "-">>

Block(open_line, close_line, delimiter, nesting, verbatim) ==
    [kind |-> "", open_line |-> open_line, close_line |-> close_line,
     delimiter |-> delimiter, nesting |-> nesting, verbatim |-> verbatim]

\* Block.hashable, set in __post_init__
hashable(b) == <<b.open_line, b.delimiter>>

LegacyConditional(kind, open_line, close_line, expression, nesting) ==
    [kind |-> kind, open_line |-> open_line, close_line |-> close_line,
     expression |-> expression, nesting |-> nesting]

\* AsciiDocIndexer.__init__ up to the call of _parse; the stacks and the lookup
\* tables hold positions in blocks and in conditionals, which stand for the
\* shared objects
Indexer(doc) ==
    [at |-> "parse", lines |-> doc, lineno |-> 0,
     blocks |-> <<>>, conditionals |-> <<>>,
     block_opener |-> {}, block_closer |-> {}, cond_opener |-> {}, cond_closer |-> {},
     block_stack |-> <<>>, cond_stack |-> <<>>, verbatim_mode |-> <<>>,
     warnings |-> <<>>, asked |-> <<>>, answer |-> <<>>]

\* a conditional is opened: lines 205-226
OpenConditional(ix, m) ==
    [ix EXCEPT
        !.conditionals = Append(@, LegacyConditional(m[1], ix.lineno, Len(ix.lines), m[2],
                                                     Len(ix.cond_stack))),
        !.cond_opener = @ \cup {<<ix.lineno, Len(ix.conditionals) + 1>>},
        !.cond_stack = Append(@, Len(ix.conditionals) + 1)]

\* an endif that closes the conditional that was opened first, not last
CloseOldest(ix, m) ==
    IF ix.cond_stack # <<>>
    THEN [ix EXCEPT
             !.cond_stack = SubSeq(@, 2, Len(@)),
             !.conditionals[ix.cond_stack[1]].close_line = ix.lineno,
             !.cond_closer = @ \cup {<<ix.lineno, ix.cond_stack[1]>>}]
    ELSE [ix EXCEPT
             !.conditionals = Append(@, LegacyConditional("endif", -1, ix.lineno, m[2],
                                                          Len(ix.cond_stack) - 1)),
             !.cond_closer = @ \cup {<<ix.lineno, Len(ix.conditionals) + 1>>},
             !.warnings = Append(@, ix.lineno + 1)]

\* an endif: lines 229-249
CloseConditional(ix, m) ==
    IF ix.cond_stack # <<>>
    THEN LET open_c == ix.cond_stack[Len(ix.cond_stack)]
         IN  [ix EXCEPT
                 !.cond_stack = SubSeq(@, 1, Len(@) - 1),
                 !.conditionals[open_c].close_line = ix.lineno,
                 !.cond_closer = @ \cup {<<ix.lineno, open_c>>}]
    ELSE [ix EXCEPT
             !.conditionals = Append(@, LegacyConditional("endif", -1, ix.lineno, m[2],
                                                          Len(ix.cond_stack) - 1)),
             !.cond_closer = @ \cup {<<ix.lineno, Len(ix.conditionals) + 1>>},
             !.warnings = Append(@, ix.lineno + 1)]

\* the block on top of the stack is closed: lines 257-261 and 272-276
CloseBlock(ix) ==
    LET open_b == ix.block_stack[Len(ix.block_stack)]
    IN  [ix EXCEPT
            !.block_stack = SubSeq(@, 1, Len(@) - 1),
            !.blocks[open_b].close_line = ix.lineno,
            !.block_closer = @ \cup {<<ix.lineno, open_b>>}]

\* lines 280-302: a block is opened
OpenBlock(ix, delim) ==
    LET verbatim_flag == /\ Len(delim) >= 4
                         /\ SubSeq(delim, 1, 4) \in {<<"-", "-", "-", "-">>, <<"+", "+", "+", "+">>,
                                                     <<"/", "/", "/", "/">>, <<".", ".", ".", ".">>}
    IN  [ix EXCEPT
            !.verbatim_mode = IF verbatim_flag THEN <<delim>> ELSE @,
            !.blocks = Append(@, Block(ix.lineno, Len(ix.lines), delim, Len(ix.block_stack),
                                       verbatim_flag)),
            !.block_opener = @ \cup {<<ix.lineno, Len(ix.blocks) + 1>>},
            !.block_stack = Append(@, Len(ix.blocks) + 1)]

\* one turn of the loop of AsciiDocIndexer._parse, on the line ix.lineno
parse_turn(ix) ==
    LET raw == ix.lines[ix.lineno + 1]
        after ==
            IF IFDEF_IFNDEF(raw) # <<>> THEN OpenConditional(ix, IFDEF_IFNDEF(raw))
            ELSE IF IFEVAL(raw) # <<>> THEN OpenConditional(ix, IFEVAL(raw))
            ELSE IF ENDIF(raw) # <<>> THEN CloseConditional(ix, ENDIF(raw))
            ELSE IF ix.verbatim_mode # <<>>
            THEN IF Rstrip(raw) = ix.verbatim_mode[1]
                 THEN [CloseBlock(ix) EXCEPT !.verbatim_mode = <<>>]
                 ELSE ix
            ELSE IF FOUR_MORE_DELIM(raw) \/ TABLE_DELIM(raw) \/ OPEN_BLOCK_DELIM(raw)
            THEN IF /\ ix.block_stack # <<>>
                    /\ ix.blocks[ix.block_stack[Len(ix.block_stack)]].delimiter = Rstrip(raw)
                 THEN CloseBlock(ix)
                 ELSE OpenBlock(ix, Rstrip(raw))
            ELSE ix
    IN  [after EXCEPT !.lineno = ix.lineno + 1]

\* AsciiDocIndexer.blocks_enclosing: the positions of the blocks
blocks_enclosing(ix, line) ==
    {b \in 1..Len(ix.blocks) :
        ix.blocks[b].open_line < line /\ line < ix.blocks[b].close_line}

\* a comparison that takes every two lines to be in the same blocks
SameBlocksAlways(ix, line1, line2) == TRUE

\* AsciiDocIndexer.is_in_same_blocks
is_in_same_blocks(ix, line1, line2) ==
    {hashable(ix.blocks[b]) : b \in blocks_enclosing(ix, line1)}
       = {hashable(ix.blocks[b]) : b \in blocks_enclosing(ix, line2)}

\* ConditionalLookup.is_supported
is_supported(cond_map, conditional) == conditional \in cond_map

\* is_conditional_processable
is_conditional_processable(conditional, ix, cond_map, previous_end_line_number) ==
    LET lineno == conditional.open_line
        enclosing_blocks == blocks_enclosing(ix, lineno)
    IN  IF conditional.kind \notin {"ifdef", "ifndef"} THEN FALSE
        ELSE IF ~is_supported(cond_map, conditional.expression) THEN FALSE
        ELSE IF lineno < previous_end_line_number THEN FALSE
        ELSE IF ~is_in_same_blocks(ix, lineno, conditional.close_line) THEN FALSE
        ELSE IF \E b \in enclosing_blocks : ix.blocks[b].verbatim THEN FALSE
        ELSE IF \E b \in enclosing_blocks : TABLE_DELIM(ix.blocks[b].delimiter) THEN FALSE
        ELSE IF conditional.close_line <= lineno + 1 THEN FALSE
        ELSE TRUE

\* AsciiDocIndexer(lines) is called on a bounded document
InitIndexer ==
    /\ input = <<>>
    /\ lines = <<>>
    /\ running = <<State("ROOT", "NORMAL", NoParams)>>
    /\ next_line_id = 1
    /\ pc = "indexer"
    /\ log = <<>>
    /\ idx = 0
    /\ scan = <<>>
    /\ conditionals = <<>>
    /\ end_ids_unsupported = {}
    /\ cidx = 0
    /\ ridx = 0
    /\ pool = {}
    /\ called = <<>>
    /\ legacy \in {Indexer(doc) : doc \in IndexerDocs}

\* one turn of the loop of _parse
IndexLine ==
    /\ pc = "indexer"
    /\ legacy.at = "parse"
    /\ legacy.lineno < Len(legacy.lines)
    /\ legacy' = parse_turn(legacy)
    /\ LegacyFrame

\* the loop of _parse is done and __init__ returns
IndexDone ==
    /\ pc = "indexer"
    /\ legacy.at = "parse"
    /\ legacy.lineno = Len(legacy.lines)
    /\ legacy' = [legacy EXCEPT !.at = "indexed"]
    /\ LegacyFrame

\* one call of is_conditional_processable on a conditional of the indexer
AskProcessable ==
    /\ pc = "indexer"
    /\ legacy.at = "indexed"
    /\ \E c \in 1..Len(legacy.conditionals), cond_map \in LookupChoices,
          previous_end_line_number \in -1..Len(legacy.lines) :
          legacy' = [legacy EXCEPT
                        !.at = "answered",
                        !.asked = <<[conditional |-> c, cond_map |-> cond_map,
                                     previous_end_line_number |-> previous_end_line_number]>>,
                        !.answer = <<is_conditional_processable(
                                        legacy.conditionals[c], legacy, cond_map,
                                        previous_end_line_number)>>]
    /\ LegacyFrame

NextIndexer ==
    \/ IndexLine
    \/ IndexDone
    \/ AskProcessable

SpecIndexer == InitIndexer /\ [][NextIndexer]_vars


-----------------------------------------------------------------------------
(* Properties of the legacy indexer. *)

\* the line numbers of the document that open a conditional, and those of the endifs
OpenerLines(doc) ==
    {n \in 0..(Len(doc) - 1) : IFDEF_IFNDEF(doc[n + 1]) # <<>> \/ IFEVAL(doc[n + 1]) # <<>>}

EndifLines(doc) ==
    {n \in 0..(Len(doc) - 1) : n \notin OpenerLines(doc) /\ ENDIF(doc[n + 1]) # <<>>}

\* the endif that closes the conditional opened on line o when every endif
\* closes the conditional opened last: the first endif after o with as many
\* openers as endifs between o and it; the number of lines when there is none
MatchLine(doc, o) ==
    LET Balanced(n) ==
            Cardinality({k \in OpenerLines(doc) : o < k /\ k < n})
               = Cardinality({k \in EndifLines(doc) : o < k /\ k < n})
        closers == {n \in EndifLines(doc) : n > o /\ Balanced(n)}
    IN  IF closers = {} THEN Len(doc)
        ELSE CHOOSE n \in closers : \A k \in closers : n <= k

\* the endifs that close no conditional
UnmatchedEndifs(doc) ==
    {n \in EndifLines(doc) : \A o \in OpenerLines(doc) : MatchLine(doc, o) # n}

\* the positions of the records of the indexer with the fields given
RecordsWith(kinds, opens, close_line) ==
    {j \in 1..Len(legacy.conditionals) :
        /\ legacy.conditionals[j].kind \in kinds
        /\ legacy.conditionals[j].open_line \in opens
        /\ legacy.conditionals[j].close_line = close_line}

\* C21: the legacy AsciiDocIndexer matches every endif to the conditional opened
\* last among those still open, so that open_line < close_line for every matched
\* conditional; an endif met while none is open is recorded as a Conditional of
\* kind endif with open_line -1, with one warning, and the conditionals after it
\* are matched as before; a conditional that is never closed keeps close_line
\* equal to the number of lines. (Stated of the indexer as __init__ returns it;
\* no later call changes its records.)
C21_EndifClosesLastOpened ==
    (pc = "indexer" /\ legacy.at = "indexed" /\ legacy.asked = <<>>) =>
       LET doc == legacy.lines
       IN  /\ \A o \in OpenerLines(doc) :
                 /\ Cardinality(RecordsWith({"ifdef", "ifndef", "ifeval"}, {o},
                                            MatchLine(doc, o))) = 1
                 /\ o < MatchLine(doc, o)
           /\ \A n \in UnmatchedEndifs(doc) :
                 /\ Cardinality(RecordsWith({"endif"}, {-1}, n)) = 1
                 /\ Cardinality({w \in 1..Len(legacy.warnings) : legacy.warnings[w] = n + 1}) = 1
           /\ Len(legacy.conditionals)
                 = Cardinality(OpenerLines(doc)) + Cardinality(UnmatchedEndifs(doc))
           /\ Len(legacy.warnings) = Cardinality(UnmatchedEndifs(doc))

\* an endif with none open, then a conditional that is never closed around one
\* that is closed
C21_Witness ==
    /\ pc = "indexer"
    /\ legacy.at = "indexed"
    /\ legacy.asked = <<>>
    /\ \E a, b, c \in 1..Len(legacy.conditionals) :
          /\ legacy.conditionals[a].kind = "endif"
          /\ legacy.conditionals[a].open_line = -1
          /\ legacy.conditionals[b].open_line > legacy.conditionals[a].close_line
          /\ legacy.conditionals[b].close_line = Len(legacy.lines)
          /\ legacy.conditionals[c].open_line > legacy.conditionals[b].open_line
          /\ legacy.conditionals[c].close_line < Len(legacy.lines)

\* the block encloses the line
Encloses(b, line) == b.open_line < line /\ line < b.close_line

\* the blocks of the indexer around the line
BlocksAt(line) ==
    {legacy.blocks[b] : b \in {k \in 1..Len(legacy.blocks) : Encloses(legacy.blocks[k], line)}}

\* a block whose delimiter makes its content verbatim, or a table
VerbatimOrTable(b) ==
    \/ /\ Len(b.delimiter) >= 4
       /\ b.delimiter[1] \in {"-", "+", "/", "."}
       /\ \A i \in 1..4 : b.delimiter[i] = b.delimiter[1]
    \/ b.delimiter[1] \in {"|", "!", ",", ":"}

\* C22: the legacy is_conditional_processable returns False for every ifdef or
\* ifndef whose opening line is enclosed by a verbatim block or by a table
\* block, and for every conditional whose opening and closing lines are not
\* enclosed by the same set of blocks, whatever the expression and the lookup.
C22_BlocksReject ==
    (pc = "indexer" /\ legacy.asked # <<>>) =>
       LET c == legacy.conditionals[legacy.asked[1].conditional]
       IN  /\ (/\ c.kind \in {"ifdef", "ifndef"}
               /\ \E b \in BlocksAt(c.open_line) : VerbatimOrTable(b))
                 => legacy.answer = <<FALSE>>
           /\ BlocksAt(c.open_line) # BlocksAt(c.close_line)
                 => legacy.answer = <<FALSE>>

\* the call was made on a supported, closed, non-empty ifdef at the top level of
\* the conditionals, whose directives are not in the same blocks
C22_Witness ==
    /\ pc = "indexer"
    /\ legacy.asked # <<>>
    /\ LET c == legacy.conditionals[legacy.asked[1].conditional]
       IN  /\ c.kind = "ifdef"
           /\ c.expression \in legacy.asked[1].cond_map
           /\ legacy.asked[1].previous_end_line_number = -1
           /\ c.close_line > c.open_line + 1
           /\ BlocksAt(c.open_line) = {}
           /\ BlocksAt(c.close_line) # {}
           /\ legacy.answer = <<FALSE>>


-----------------------------------------------------------------------------
(* Properties of _parse_line, branch by branch. *)

\* _parse_line is about to be given the line, outside a verbatim block, and
\* returns
Given(shape) ==
    /\ pc = "parse"
    /\ running # <<>>
    /\ Top(running).subtype # "VERBATIM"
    /\ Len(input') = Len(input) + 1
    /\ input'[Len(input')] = shape
    /\ pc' = "parse"
    /\ Len(lines') = Len(lines) + 1

\* the line that the step has parsed
NewLine == lines'[Len(lines')]

\* the step has logged one diagnostic of one of the kinds, naming the new line
Warned(kinds) ==
    /\ Len(log') = Len(log) + 1
    /\ log'[Len(log')].kind \in kinds
    /\ log'[Len(log')].line = NewLine.id

\* the line before the new one is a + that was taken as a joiner
AfterPlusJoiner ==
    /\ lines # <<>>
    /\ lines[Len(lines)].content = PlusLine
    /\ TopIs(lines[Len(lines)], "LIST_ITEM", "JOINER")

\* the new line is the JOINER of the carried item, and the item is carried on
\* as JOINED_FIRST_LINE
TakenAsJoiner ==
    /\ NewLine.state_stack = Push(Pop(running), WithSubtype(Top(running), "JOINER"))
    /\ running' = Push(Pop(running), WithSubtype(Top(running), "JOINED_FIRST_LINE"))

\* the new line continues the carried paragraph or opens one
TakenAsContent ==
    /\ Top(NewLine.state_stack).type = "PARAGRAPH"
    /\ Top(running').type = "PARAGRAPH"
    /\ Top(running').subtype = "NORMAL"
    /\ Get(Top(running'), "first_line") = Get(Top(NewLine.state_stack), "first_line")

\* C31: a lone + line becomes a LIST_ITEM/JOINER, the next line being carried as
\* JOINED_FIRST_LINE of the same item, only when the carried top is a LIST_ITEM
\* that is not TERMINATED and the line before was not itself a + joiner;
\* everywhere else outside a verbatim block, and directly after another +, it is
\* warned about and taken as plain content, which continues or opens a paragraph.
C31_PlusJoinsOnlyInItem ==
    [][Given(PlusLine) =>
          IF /\ Top(running).type = "LIST_ITEM"
             /\ Top(running).subtype # "TERMINATED"
             /\ ~AfterPlusJoiner
          THEN TakenAsJoiner /\ log' = log
          ELSE /\ Warned({"single + is not a valid joiner", "+ immediately after another +"})
               /\ TakenAsContent]_vars

\* the same, but a + met while the item is carried as JOINED_FIRST_LINE (directly
\* after a + joiner, for one) is warned about and is a JOINER again
PlusAfterPlusJoins ==
    [][Given(PlusLine) =>
          IF /\ Top(running).type = "LIST_ITEM"
             /\ Top(running).subtype # "TERMINATED"
          THEN /\ TakenAsJoiner
               /\ AfterPlusJoiner => Top(running).subtype = "JOINED_FIRST_LINE"
               /\ IF Top(running).subtype = "JOINED_FIRST_LINE"
                  THEN Warned({"+ immediately after another +"})
                  ELSE log' = log
          ELSE /\ Warned({"single + is not a valid joiner"})
               /\ TakenAsContent]_vars


\* the states that belong to one line and are never carried to the next
LineLocal(state) ==
    \/ state.type \in {"CONDITIONAL", "BLOCK_PREFIX", "SECTION_HEADER", "LINE_COMMENT",
                       "ATTRIBUTE_DEFINITION"}
    \/ state.subtype \in {"JOINER", "START", "END", "FIRST_LINE"}

\* C32: for every input, the stack that _parse_line returns and that is carried
\* into the next line is non-empty with ROOT/NORMAL at the bottom, and its top
\* is never of type CONDITIONAL, BLOCK_PREFIX, SECTION_HEADER, LINE_COMMENT or
\* ATTRIBUTE_DEFINITION nor of subtype JOINER, START, END or FIRST_LINE; so the
\* 'Invalid top state' check never raises while Parsed is constructed.
C32_CarriedTopValid ==
    /\ running # <<>>
    /\ running[1] = State("ROOT", "NORMAL", NoParams)
    /\ ~LineLocal(Top(running))
    /\ \A n \in 1..Len(log) : log[n].kind # "ValueError"

\* lines with line-local tops of each kind have been parsed and the stack has
\* been carried past them
C32_Witness ==
    /\ pc = "parse"
    /\ Len(lines) >= 3
    /\ TopIs(lines[Len(lines) - 2], "LIST_ITEM", "FIRST_LINE")
    /\ TopIs(lines[Len(lines) - 1], "LIST_ITEM", "JOINER")
    /\ TopIs(lines[Len(lines)], "BLOCK_PREFIX", "BLOCK_ATTRIBUTES")


-----------------------------------------------------------------------------
(* Parsed.__init__ over documents with delimited blocks inside and around    *)
(* paragraphs and list items.                                                *)

MaxBlockLines == 4

LongListingLine == <<"-", "-", "-", "-", "-">>

\* the lines of a document with blocks: verbatim blocks of two lengths, an open
\* block, a comment block, and the lines that are met before and inside them
BlockShapes ==
    {BlankLine, TextLine, IfdefLine, ItemLine, SubItemLine, PlusLine, ListingLine,
     LongListingLine, OpenLine, SlashesLine, AttributesLine, CommentLine, HeaderLine}

NextBlocks ==
    \/ \E content \in BlockShapes : ParseLine(content, MaxBlockLines)
    \/ FinishParse

SpecBlocks == Init /\ [][NextBlocks]_vars

\* _parse_line is about to be given a line while the carried top is
\* DELIMITED_BLOCK/VERBATIM
InVerbatim ==
    /\ pc = "parse"
    /\ running # <<>>
    /\ Top(running).type = "DELIMITED_BLOCK"
    /\ Top(running).subtype = "VERBATIM"
    /\ Len(input') = Len(input) + 1

\* C33: while the carried top is DELIMITED_BLOCK/VERBATIM, every line that is
\* neither a conditional directive nor equal, after the right trim, to the
\* delimiter of that block gets a stack equal to the carried stack and leaves
\* the carried stack unchanged, whatever its shape; only the exact delimiter
\* closes the block, and it pops to and including the state of the block.
C33_VerbatimOpaque ==
    [][InVerbatim =>
          LET content == input'[Len(input')]
          IN  IF CONDITIONAL(content).matched THEN running' = running
              ELSE /\ pc' = "parse"
                   /\ Len(lines') = Len(lines) + 1
                   /\ IF Rstrip(content) = Top(running).parameters["delimiter"]
                      THEN /\ running' = Pop(running)
                           /\ NewLine.state_stack
                                 = Push(Pop(running), WithSubtype(Top(running), "END"))
                      ELSE /\ running' = running
                           /\ NewLine.state_stack = running
                           /\ \A n \in 1..Len(lines) : lines'[n] = lines[n]]_vars

\* a verbatim block that holds a longer line of the same character, a list item
\* and a +, is closed by its delimiter
C33_Witness ==
    /\ pc = "parse"
    /\ Len(lines) = 4
    /\ TopIs(lines[1], "DELIMITED_BLOCK", "START")
    /\ lines[2].content \in {LongListingLine, OpenLine}
    /\ TopIs(lines[2], "DELIMITED_BLOCK", "VERBATIM")
    /\ lines[3].content \in {ItemLine, PlusLine, AttributesLine, HeaderLine}
    /\ TopIs(lines[3], "DELIMITED_BLOCK", "VERBATIM")
    /\ TopIs(lines[4], "DELIMITED_BLOCK", "END")


\* the positions in the stack above its nearest ROOT or DELIMITED_BLOCK
LevelOf(stack) ==
    {i \in 1..Len(stack) :
        \A j \in i..Len(stack) : stack[j].type \notin {"ROOT", "DELIMITED_BLOCK"}}

\* the positions of the list items of the level that have the marker
ItemsWith(stack, marker) ==
    {i \in LevelOf(stack) :
        stack[i].type = "LIST_ITEM" /\ Get(stack[i], "marker") = <<marker>>}

\* no two list items of one level of the stack have the same marker
NoTwinItems(stack) ==
    \A i, j \in 1..Len(stack) :
       (/\ i < j
        /\ stack[i].type = "LIST_ITEM"
        /\ stack[j].type = "LIST_ITEM"
        /\ Get(stack[i], "marker") = Get(stack[j], "marker"))
          => \E n \in (i + 1)..(j - 1) : stack[n].type \in {"ROOT", "DELIMITED_BLOCK"}

\* _parse_line is about to be given a list-marker line while the carried top
\* is a LIST_ITEM
MarkerInItem ==
    /\ pc = "parse"
    /\ running # <<>>
    /\ Top(running).type = "LIST_ITEM"
    /\ Len(input') = Len(input) + 1
    /\ input'[Len(input')] \in {ItemLine, SubItemLine}

\* C34: for a list-marker line met while the carried top is a LIST_ITEM: if a
\* LIST_ITEM with the identical marker is on the stack above the nearest ROOT or
\* DELIMITED_BLOCK, every state above it is dropped and that item is reopened
\* (FIRST_LINE on this line with item_start_line the id of this line and
\* list_start_line unchanged, NORMAL carried); otherwise a new LIST_ITEM with
\* list_start_line = item_start_line = the id of this line is pushed on top. So
\* no stack ever holds two LIST_ITEM states with the same marker in one level.
C34_ItemReopened ==
    [][/\ MarkerInItem =>
             LET marker == LIST_ITEM(Rstrip(input'[Len(input')]))
                 same   == ItemsWith(running, marker)
                 id     == next_line_id
             IN  /\ pc' = "parse"
                 /\ Len(lines') = Len(lines) + 1
                 /\ NewLine.id = id
                 /\ IF same # {}
                    THEN \E k \in same :
                            LET item == SetParam(running[k], "item_start_line", id)
                            IN  /\ NewLine.state_stack
                                      = Append(Take(running, k - 1),
                                               WithSubtype(item, "FIRST_LINE"))
                                /\ running' = Append(Take(running, k - 1),
                                                     WithSubtype(item, "NORMAL"))
                                /\ Get(Top(running'), "list_start_line")
                                      = Get(running[k], "list_start_line")
                    ELSE LET item == [type |-> "LIST_ITEM", subtype |-> "FIRST_LINE",
                                      parameters |-> [list_start_line |-> id,
                                                      item_start_line |-> id,
                                                      marker |-> marker]]
                         IN  /\ NewLine.state_stack = Append(running, item)
                             /\ running' = Append(running, WithSubtype(item, "NORMAL"))
       /\ NoTwinItems(running')
       /\ \A n \in 1..Len(lines') : NoTwinItems(lines'[n].state_stack)]_vars

\* an item with a nested item under it was reopened by a line with its marker,
\* and a new item was nested under it again
C34_Witness ==
    /\ pc = "parse"
    /\ Len(lines) = 4
    /\ Len(lines[2].state_stack) = 3
    /\ Len(lines[3].state_stack) = 2
    /\ TopIs(lines[3], "LIST_ITEM", "FIRST_LINE")
    /\ Get(Top(lines[3].state_stack), "item_start_line") = <<3>>
    /\ Get(Top(lines[3].state_stack), "list_start_line") = <<1>>
    /\ Len(lines[4].state_stack) = 3
    /\ Get(Top(lines[4].state_stack), "list_start_line") = <<4>>


\* _parse_line is about to be given a blank line
BlankGiven ==
    /\ pc = "parse"
    /\ running # <<>>
    /\ Len(input') = Len(input) + 1
    /\ Rstrip(input'[Len(input')]) = <<>>

\* C35: for a blank line: with a PARAGRAPH on top, the paragraph is removed
\* from the stack of this line and from the carried stack; with a LIST_ITEM on
\* top, the item is TERMINATED in both, except when it is JOINED_FIRST_LINE
\* directly above another LIST_ITEM: then the inner item is dropped, the top of
\* this line is the enclosing item with subtype JOINER and the carried top is
\* the enclosing item with subtype JOINED_FIRST_LINE; with ROOT or
\* DELIMITED_BLOCK on top, the stack of this line is the carried stack, which is
\* unchanged.
C35_BlankLine ==
    [][BlankGiven =>
          LET top   == Top(running)
              under == Pop(running)
          IN  /\ pc' = "parse"
              /\ Len(lines') = Len(lines) + 1
              /\ log' = log
              /\ CASE top.type = "PARAGRAPH" ->
                         /\ NewLine.state_stack = under
                         /\ running' = under
                   [] top.type = "LIST_ITEM" ->
                         IF /\ top.subtype = "JOINED_FIRST_LINE"
                            /\ Top(under).type = "LIST_ITEM"
                         THEN /\ NewLine.state_stack
                                    = Append(Pop(under), WithSubtype(Top(under), "JOINER"))
                              /\ running'
                                    = Append(Pop(under),
                                             WithSubtype(Top(under), "JOINED_FIRST_LINE"))
                         ELSE /\ NewLine.state_stack
                                    = Append(under, WithSubtype(top, "TERMINATED"))
                              /\ running' = NewLine.state_stack
                   [] top.type \in {"ROOT", "DELIMITED_BLOCK"} ->
                         /\ NewLine.state_stack = running
                         /\ running' = running]_vars

\* a blank line after the + of a nested item has continued the enclosing item
C35_Witness ==
    /\ pc = "parse"
    /\ Len(lines) = 4
    /\ lines[4].content = <<>>
    /\ TopIs(lines[3], "LIST_ITEM", "JOINER")
    /\ Len(lines[3].state_stack) = 3
    /\ TopIs(lines[4], "LIST_ITEM", "JOINER")
    /\ Len(lines[4].state_stack) = 2
    /\ Top(running).subtype = "JOINED_FIRST_LINE"
    /\ Len(running) = 2


\* _parse_line is about to be given a delimiter line, outside a verbatim block,
\* that is not the delimiter of the block that is open
DelimiterGiven ==
    /\ pc = "parse"
    /\ running # <<>>
    /\ Top(running).subtype # "VERBATIM"
    /\ Len(input') = Len(input) + 1
    /\ is_delimiter(Rstrip(input'[Len(input')])) # <<>>
    /\ Rstrip(input'[Len(input')]) # top_delimiter(running)

\* _parse_line is about to be given the delimiter of the block that is open
CloserGiven ==
    /\ pc = "parse"
    /\ running # <<>>
    /\ top_delimiter(running) # <<>>
    /\ Len(input') = Len(input) + 1
    /\ Rstrip(input'[Len(input')]) = top_delimiter(running)

\* the carried stack as it lies beneath a block that is opened on it
Beneath(stack) ==
    LET base == IF Top(stack).type = "PARAGRAPH" THEN Pop(stack) ELSE stack
    IN  IF Top(base).type # "LIST_ITEM" THEN base
        ELSE IF Top(base).subtype = "JOINED_FIRST_LINE"
        THEN Append(Pop(base), WithSubtype(Top(base), "JOINED_DELIMITED_BLOCK"))
        ELSE PopListItems(base)

\* the step opens a block on the carried stack
BlockOpened ==
    LET delimiter == Rstrip(input'[Len(input')])
        params    == [delimiter |-> delimiter, block_start_line |-> next_line_id]
        beneath   == Beneath(running)
    IN  /\ pc' = "parse"
        /\ Len(lines') = Len(lines) + 1
        /\ NewLine.id = next_line_id
        /\ NewLine.state_stack
              = Append(beneath, [type |-> "DELIMITED_BLOCK", subtype |-> "START",
                                 parameters |-> params])
        /\ running'
              = Append(beneath, [type |-> "DELIMITED_BLOCK",
                                 subtype |-> IF is_delimiter_verbatim(delimiter)
                                             THEN "VERBATIM" ELSE "NORMAL",
                                 parameters |-> params])

\* the step closes the open block: the carried stack is the one that lay beneath
\* the block when its START line was parsed
BlockClosed ==
    LET k     == top_by_type(running, "DELIMITED_BLOCK")
        start == IndexOfId(lines, running[k].parameters["block_start_line"])
    IN  /\ pc' = "parse"
        /\ running' = Take(running, k - 1)
        /\ start # 0
        /\ running' = Pop(lines[start].state_stack)

\* C39: a delimiter line met outside a verbatim block that does not close the
\* current block opens a new one: an open PARAGRAPH is dropped first; a
\* LIST_ITEM in JOINED_FIRST_LINE becomes JOINED_DELIMITED_BLOCK and stays on the
\* stack beneath the block; any other open LIST_ITEM chain is dropped entirely;
\* this line gets DELIMITED_BLOCK/START with the delimiter and block_start_line
\* its own id on top, and the carried stack gets a DELIMITED_BLOCK entry
\* subtyped VERBATIM or NORMAL by the kind of the delimiter; when the block
\* later closes, the carried stack is exactly the stack that lay beneath it.
C39_DelimiterOpensBlock ==
    [][/\ DelimiterGiven => BlockOpened
       /\ CloserGiven => BlockClosed]_vars

\* the same for every delimiter but the line of four slashes, which is taken as
\* a line comment
OtherDelimitersOpen ==
    [][/\ (DelimiterGiven /\ input'[Len(input')] # SlashesLine) => BlockOpened
       /\ (DelimiterGiven /\ input'[Len(input')] = SlashesLine) =>
             /\ running' = running
             /\ TopIs(NewLine, "LINE_COMMENT", "NORMAL")
       /\ CloserGiven => BlockClosed]_vars

\* a block was opened on a joined list item and closed again
JoinedBlockClosed ==
    /\ pc = "parse"
    /\ Len(lines) = 4
    /\ TopIs(lines[2], "LIST_ITEM", "JOINER")
    /\ TopIs(lines[3], "DELIMITED_BLOCK", "START")
    /\ TopIs(lines[4], "DELIMITED_BLOCK", "END")
    /\ Top(running).subtype = "JOINED_DELIMITED_BLOCK"


----------------------------------------------------------------------------
(* The block-based walk of process_conditionals, over documents of one span *)
(* that holds attribute lines, titles, paragraphs, blocks, items, headers.  *)

MaxWalkLines == 7

\* the lines before the span, and the lines inside it
WalkLeads == {BlankLine, ItemLine}

WalkShapes ==
    {BlankLine, TextLine, AttributesLine, TitleLine, ItemLine, HeaderLine,
     ListingLine, OpenLine, SlashesLine, CommentLine}

\* the span is closed: the last line read is its endif
SpanClosed == input # <<>> /\ input[Len(input)] = EndifLine

ParseWalkLine ==
    /\ ~SpanClosed
    /\ \/ Len(input) = 0 /\ \E content \in WalkLeads : ParseLine(content, MaxWalkLines)
       \/ Len(input) = 1 /\ ParseLine(IfdefLine, MaxWalkLines)
       \/ Len(input) > 1 /\ \E content \in WalkShapes \cup {EndifLine} :
                                ParseLine(content, MaxWalkLines)

NextWalk ==
    \/ ParseWalkLine
    \/ SpanClosed /\ FinishParse
    \/ StartMap
    \/ MakeMapStep
    \/ ScanStep
    \/ FinishMap
    \/ ProcessStep
    \/ FinishProcess
    \/ RemoveStep
    \/ WriteOutput

\* main over documents of one span of blocks
SpecWalk == Init /\ [][NextWalk]_vars

\* process_conditionals walks a BLOCKS span and returns
WalkStep ==
    /\ pc = "process"
    /\ cidx < Len(conditionals)
    /\ conditionals[cidx + 1].type = "BLOCKS"
    /\ pc' = "process"
    /\ cidx' = cidx + 1

\* the positions of the lines inside the span that is walked
SpanOf ==
    LET cond == conditionals[cidx + 1]
    IN  (IndexOfId(lines, cond.start_id) + 1) .. (IndexOfId(lines, cond.end_id) - 1)

\* a blank line or a line that is not text
NotText(line) ==
    \/ IsBlank(line)
    \/ Top(line.state_stack).type \in {"CONDITIONAL", "LINE_COMMENT", "ATTRIBUTE_DEFINITION"}

\* the lines directly before position p that belong to the block at p: its
\* attribute lines and title, and the blank and non-text lines among them
PrefixRun(p) ==
    {q \in SpanOf :
        /\ q < p
        /\ \A r \in q..(p - 1) :
              NotText(lines[r]) \/ Top(lines[r].state_stack).type = "BLOCK_PREFIX"}

\* an attribute line or a block title of the span is pending at position p
Pending(p) == \E q \in PrefixRun(p) : Top(lines[q].state_stack).type = "BLOCK_PREFIX"

\* the first line of a paragraph, or the start of a block that is not a
\* comment block, that lies directly on the root
BlockAt(p) ==
    /\ p \in SpanOf
    /\ Len(lines[p].state_stack) = 2
    /\ \/ TopIs(lines[p], "PARAGRAPH", "FIRST_LINE")
       \/ /\ TopIs(lines[p], "DELIMITED_BLOCK", "START")
          /\ Top(lines[p].state_stack).parameters["delimiter"][1] # "/"

\* the line was inserted by the walk
IsNew(line) == line.id >= next_line_id

\* the line carries a role attribute
HasRole(line) == \E k \in 1..Len(line.content) : line.content[k] = "role="

\* the role lines of a span, the values iterated in any order
RoleLines ==
    {AttributeLine(Iterate(conditionals[cidx + 1].values, u)) : u \in Orders(Values)}

\* the block at p has its role: carried by the pending line, or by one new
\* line directly before it
RoleAttached(p) ==
    LET after == IndexOfId(lines', lines[p].id)
        lo    == IF PrefixRun(p) = {} THEN p
                 ELSE CHOOSE q \in PrefixRun(p) : \A r \in PrefixRun(p) : q <= r
        from  == IndexOfId(lines', lines[lo - 1].id) + 1
    IN  /\ after > 1
        /\ IF Pending(p)
           THEN ~IsNew(lines'[after - 1])
           ELSE IsNew(lines'[after - 1]) /\ lines'[after - 1].content \in RoleLines
        /\ Cardinality({k \in from..(after - 1) : HasRole(lines'[k])}) = 1

\* C36: within a BLOCKS span, for every paragraph first line and every start
\* of a delimited block that is not a comment block, reached by the walk: when
\* an attribute line of the span, or a block title, is still pending, the role
\* is carried by the existing line and no line is inserted; otherwise exactly
\* one role line is inserted directly before it.  Either way the block has
\* exactly one role annotation; a pending line is consumed by the first such
\* block after it and cancelled by any other line of text.
C36_OneRolePerBlock ==
    [][WalkStep => \A p \in SpanOf : BlockAt(p) => RoleAttached(p)]_vars


\* the lines before the block at p do not mislead the walk: no item and no
\* header comes before it in the span, and the attribute line of its prefix, if
\* there is one, is the only one and comes before the title
PlainBefore(p) ==
    /\ \A q \in SpanOf :
          q < p => Top(lines[q].state_stack).type \notin {"LIST_ITEM", "SECTION_HEADER"}
    /\ \A q \in PrefixRun(p) :
          TopIs(lines[q], "BLOCK_PREFIX", "BLOCK_ATTRIBUTES") =>
             \A r \in PrefixRun(p) :
                r < q => Top(lines[r].state_stack).type # "BLOCK_PREFIX"

\* the role is attached once to every block that has such lines before it
RoleAttachedInPlainSpans ==
    [][WalkStep => \A p \in SpanOf : (BlockAt(p) /\ PlainBefore(p)) => RoleAttached(p)]_vars

\* a paragraph was walked whose attribute line was pending
PendingConsumed ==
    /\ pc = "done"
    /\ Len(lines) = 4
    /\ lines[2].content = <<"[", "x", ",">> \o attroles(<<<<"a">>>>) \o <<"]">>
    /\ lines[3].content = TitleLine
    /\ lines[4].content = <<"t">>


\* the start of a delimited block whose end is recorded, and the position of
\* that end
StartAt(p) ==
    /\ p \in SpanOf
    /\ TopIs(lines[p], "DELIMITED_BLOCK", "START")
    /\ Get(Top(lines[p].state_stack), "block_end_line") # <<>>

BlockEndOf(p) == IndexOfId(lines, Top(lines[p].state_stack).parameters["block_end_line"])

\* the lines from position p to position e are after the walk what they were
\* before it, with no line between them
Untouched(p, e) ==
    LET after == IndexOfId(lines', lines[p].id)
    IN  /\ after # 0
        /\ after + (e - p) <= Len(lines')
        /\ \A k \in 0..(e - p) : lines'[after + k] = lines[p + k]

\* a comment block of the span: the first line of four slashes, directly on
\* the root, and the next one
CommentBlock(p, e) ==
    /\ p \in SpanOf /\ e \in SpanOf /\ p < e
    /\ lines[p].content = SlashesLine /\ lines[e].content = SlashesLine
    /\ Len(lines[p].state_stack) = 2
    /\ \A q \in 1..(e - 1) : q # p => lines[q].content # SlashesLine

\* no line was inserted directly before position p
NoneBefore(p) ==
    LET after == IndexOfId(lines', lines[p].id)
    IN  after > 1 /\ ~IsNew(lines'[after - 1])

\* C37: while a BLOCKS span is transformed, the walk resumes after the
\* recorded end of every delimited block it meets: no line from the START of
\* the block to its END, nested blocks included, is changed and no line is
\* inserted between them; a comment block, the delimiter of which starts with
\* a slash, gets no attribute line at all.
C37_BlocksJumpedOver ==
    [][WalkStep =>
         /\ \A p \in SpanOf : StartAt(p) => Untouched(p, BlockEndOf(p))
         /\ \A p, e \in SpanOf :
               CommentBlock(p, e) => Untouched(p, e) /\ NoneBefore(p)]_vars

\* the same for the blocks that are parsed as delimited blocks; in a comment
\* block, which is parsed as line comments and text, the paragraph has its
\* role line inserted
ParsedBlocksJumpedOver ==
    [][WalkStep =>
         /\ \A p \in SpanOf : StartAt(p) => Untouched(p, BlockEndOf(p))
         /\ \A p, e \in SpanOf :
               (/\ CommentBlock(p, e) /\ e = p + 2 /\ lines[p + 1].content = <<"t">>
                /\ PlainBefore(p + 1) /\ ~Pending(p + 1)) =>
                  /\ ~Untouched(p, e)
                  /\ NoneBefore(p)
                  /\ IsNew(lines'[IndexOfId(lines', lines[p + 1].id) - 1])]_vars

\* a span with a block nested in a block was walked
NestedBlockWalked ==
    /\ pc = "done"
    /\ Len(lines) = 6
    /\ HasRole(lines[2])
    /\ lines[3].content = OpenLine
    /\ lines[4].content = ListingLine
    /\ lines[5].content = ListingLine
    /\ lines[6].content = OpenLine


----------------------------------------------------------------------------
(* The role strings of spans whose value set holds one token and two: the   *)
(* set is iterated by dotroles and attroles in an order that the input does *)
(* not fix.                                                                 *)

MaxRoleLines == 5

RoleShapes == {BlankLine, TextLine, ItemLine, IfdefLine, IfdefBoth, EndifLine}

NextRoles ==
    \/ \E content \in RoleShapes : ParseLine(content, MaxRoleLines)
    \/ FinishParse
    \/ StartMap
    \/ MakeMapStep
    \/ ScanStep
    \/ FinishMap
    \/ ProcessStep
    \/ FinishProcess
    \/ RemoveStep
    \/ WriteOutput

\* main over documents of spans of one token and of two
SpecRoles == Init /\ [][NextRoles]_vars

\* process_conditionals is about to transform a span
TransformGiven == pc = "process" /\ cidx < Len(conditionals)

\* the lines process_conditionals leaves are the same in whatever order the
\* value set of the span is iterated
SameInEveryOrder ==
    \A u \in Orders(Values) :
       lines' = ProcessOne(lines, conditionals, cidx, next_line_id, u).doc

\* C38: the final output is a function of the input lines and of the set of
\* recognized tokens alone: two runs on the same input write the same text,
\* the order of the roles inside a role string built from a value set of more
\* than one token included.
C38_OutputDetermined ==
    [][TransformGiven => SameInEveryOrder]_vars

\* the same for the spans whose value set holds one token; with two tokens the
\* same lines are written in every order, and only their text differs
OneTokenDetermined ==
    [][TransformGiven =>
         IF Cardinality(conditionals[cidx + 1].values) < 2
         THEN SameInEveryOrder
         ELSE \A u \in Orders(Values) :
                 LET doc == ProcessOne(lines, conditionals, cidx, next_line_id, u).doc
                 IN  /\ Len(doc) = Len(lines')
                     /\ \A k \in 1..Len(doc) : doc[k].id = lines'[k].id]_vars


----------------------------------------------------------------------------
(* The storage of the parameters of the states.  A State keeps the dict it  *)
(* is given; the copies made by duplicate() and copy() are deep.  legacy    *)
(* records which line has a top state whose dict is also the dict of the    *)
(* top state of the carried stack, and the parameter a caller has set.      *)

MaxStorageLines == 3

StorageShapes ==
    {BlankLine, TextLine, IfdefLine, ListingLine, OpenLine, TitleLine,
     AttributesLine, ItemLine}

\* _parse_line returns the stack it was given, not a copy of it
ReturnsArgument(content, starting) ==
    LET clean_text == Rstrip(content)
        top == Top(starting)
    IN  IF CONDITIONAL(content).matched THEN TRUE
        ELSE IF top_delimiter(starting) # <<>> /\ clean_text = top_delimiter(starting)
        THEN FALSE
        ELSE IF top.subtype = "VERBATIM" THEN TRUE
        ELSE IF IsLineComment(clean_text) \/ ATTRIBUTE_DEFINITION(clean_text) THEN TRUE
        ELSE IF is_delimiter(clean_text) # <<>> THEN FALSE
        ELSE IF clean_text = <<>> THEN top.type \notin {"PARAGRAPH", "LIST_ITEM"}
        ELSE IF IsJoiner(clean_text, starting) \/ IsBlockAttributes(clean_text) THEN FALSE
        ELSE IF LIST_ITEM(clean_text) # <<>> /\ top.type # "PARAGRAPH" THEN FALSE
        ELSE IF IsBlockTitle(clean_text, starting)
        THEN top.type \in {"ROOT", "DELIMITED_BLOCK"}
        ELSE IF IsSectionHeader(clean_text, starting) THEN FALSE
        ELSE \/ top.type = "PARAGRAPH"
             \/ /\ top.type = "LIST_ITEM"
                /\ top.subtype \notin {"JOINED_DELIMITED_BLOCK", "TERMINATED",
                                       "JOINED_FIRST_LINE"}

\* _parse_line opens a block: one dict, block_param, is given to the START
\* state of the line and to the block state of the stack it returns
SharesBlockParam(content, starting) ==
    LET clean_text == Rstrip(content)
    IN  /\ ~CONDITIONAL(content).matched
        /\ ~(top_delimiter(starting) # <<>> /\ clean_text = top_delimiter(starting))
        /\ Top(starting).subtype # "VERBATIM"
        /\ ~IsLineComment(clean_text)
        /\ ~ATTRIBUTE_DEFINITION(clean_text)
        /\ is_delimiter(clean_text) # <<>>

InitStorage ==
    /\ input = <<>>
    /\ lines = <<>>
    /\ running = <<State("ROOT", "NORMAL", NoParams)>>
    /\ next_line_id = 1
    /\ pc = "parse"
    /\ log = <<>>
    /\ idx = 0
    /\ scan = <<>>
    /\ conditionals = <<>>
    /\ end_ids_unsupported = {}
    /\ cidx = 0
    /\ ridx = 0
    /\ pool = {}
    /\ called = <<>>
    /\ legacy = [shared |-> 0, set |-> <<>>]

\* one turn of the loop of Parsed.__init__, with the storage it leaves shared
ParseShared ==
    /\ running # <<>>
    /\ \E content \in StorageShapes :
          /\ ParseTurn(content, MaxStorageLines)
          /\ legacy' = [legacy EXCEPT !.shared =
                           IF pc' # "parse" THEN @
                           ELSE IF SharesBlockParam(content, running) THEN Len(lines')
                           ELSE IF ReturnsArgument(content, running) THEN @
                           ELSE 0]

\* state.parameters[key] = value on the top state of a stack, as the sealing
\* of a block does: target 0 is the carried stack, any other the line at that
\* position.  Every state that has the same dict shows the parameter.
SetParameter ==
    /\ pc = "parse"
    /\ lines # <<>>
    /\ \E target \in 0..Len(lines) :
          LET Written(stack) ==
                  [stack EXCEPT ![Len(stack)] = SetParam(@, "block_end_line", next_line_id)]
              ThroughLine(p) == target = p \/ (target = 0 /\ legacy.shared = p)
              ThroughCarried == target = 0 \/ legacy.shared = target
          IN  /\ lines' = [p \in 1..Len(lines) |->
                              IF ThroughLine(p)
                              THEN [lines[p] EXCEPT !.state_stack = Written(@)]
                              ELSE lines[p]]
              /\ running' = IF ThroughCarried THEN Written(running) ELSE running
              /\ legacy' = [legacy EXCEPT !.set = <<target>>]
    /\ pc' = "set"
    /\ UNCHANGED <<input, next_line_id, log, idx, scan, conditionals,
                   end_ids_unsupported, cidx, ridx, pool, called>>

NextStorage ==
    \/ ParseShared
    \/ SetParameter

\* Parsed.__init__ and a caller that sets a parameter after some _parse_line
SpecStorage == InitStorage /\ [][NextStorage]_vars

\* a parameter is set through the stack target
SetThrough(target) == pc = "parse" /\ pc' = "set" /\ legacy'.set = <<target>>

\* no stack but the target shows the parameter
OnlyThrough(target) ==
    /\ target # 0 => running' = running
    /\ \A p \in 1..Len(lines) : p # target => lines'[p] = lines[p]

\* C40: no parameter storage of a State is shared between the stack of a Line
\* and the carried stack or the stack of another Line: after any _parse_line
\* call, setting a parameter on a state of one stack, as sealing block_end_line
\* on the START state of a block does, changes the parameters read through no
\* other stack; the copies made by duplicate() are independent both ways.
C40_NoSharedStorage ==
    [][\A target \in 0..Len(lines) : SetThrough(target) => OnlyThrough(target)]_vars

\* storage is shared only between the START line of the block that was opened
\* last and the block state on top of the carried stack, from the call that
\* opens the block until a call returns a copy; everywhere else a parameter
\* shows through the one stack it was set on
SharedOnlyByBlockStart ==
    [][/\ \A target \in 0..Len(lines) :
             (SetThrough(target) /\ (legacy.shared = 0 \/ target \notin {0, legacy.shared}))
                => OnlyThrough(target)
       /\ legacy'.shared # 0 =>
             /\ TopIs(lines'[legacy'.shared], "DELIMITED_BLOCK", "START")
             /\ Top(running').type = "DELIMITED_BLOCK"
             /\ Top(running').parameters["block_start_line"] = lines'[legacy'.shared].id]_vars

=============================================================================
